---- MODULE Spec2Model ----
(***************************************************************************)
(* A model of the RPN calculator: the stack containers (stackops.c), the   *)
(* symbol tables and classifiers, the tokenizer, the shunting-yard          *)
(* converter and the postfix evaluator (RPNCalculator.c).                   *)
(*                                                                          *)
(* Characters are one-character strings, a C string is the sequence of its *)
(* characters up to the terminator.  C int is 32 bits wide; FUNCTION_SUCCESS *)
(* and the size macros are unsigned int, so every comparison of an int with *)
(* one of them is carried out after converting the int to unsigned.         *)
(***************************************************************************)
EXTENDS Integers, Sequences, FiniteSets, TLC

(***************************************************************************)
(* Program constants                                                        *)
(***************************************************************************)
EINVAL == 22

ENOMEM == 12

FUNCTION_SUCCESS == 0

EMPTY_TOP == -1

SIZE_OFFSET == 1

MAX_STACK_SIZE == 1000

MAX_TOKEN_LENGTH == 64

MAX_NUM_TOKENS == 1000

STACK_FULL == 0

STACK_EMPTY == 1

OP_ADD == 0

OP_SUB == 1

OP_MUL == 2

OP_DIV == 3

OP_POW == 4

OP_FACT == 5

OP_COUNT == 6

FUNC_COUNT == 15

PRECEDENCE_1 == 0

PRECEDENCE_2 == 1

PRECEDENCE_3 == 2

PRECEDENCE_4 == 3

PRECEDENCE_5 == 4

LEFT_ASSOCIATIVE == 0

RIGHT_ASSOCIATIVE == 1

FIRST_VALUE == 0

SECOND_VALUE == 1

\* The NULL pointer returned by Stack_popOp / Stack_peekOp: a value that is
\* no C string (its element is not a character).
NULL == <<"NULL">>

\* The string terminator read by token[i] at the end of a token.
NUL == "NUL"

(***************************************************************************)
(* C integer conversions.  "a < b" where one side is unsigned int compares  *)
(* the 32-bit unsigned images a mod 2^32 and b mod 2^32: a negative int maps *)
(* above every non-negative one, and order is kept inside each sign class.  *)
(***************************************************************************)
LtU(a, b) == IF (a < 0) = (b < 0) THEN a < b ELSE b < 0

GeU(a, b) == ~LtU(a, b)

(***************************************************************************)
(* <ctype.h> in the C locale                                                *)
(***************************************************************************)
Digits == {"0", "1", "2", "3", "4", "5", "6", "7", "8", "9"}

Letters == {"a", "b", "c", "d", "e", "f", "g", "h", "i", "j", "k", "l", "m",
            "n", "o", "p", "q", "r", "s", "t", "u", "v", "w", "x", "y", "z",
            "A", "B", "C", "D", "E", "F", "G", "H", "I", "J", "K", "L", "M",
            "N", "O", "P", "Q", "R", "S", "T", "U", "V", "W", "X", "Y", "Z"}

Spaces == {" ", "\t", "\n", "\r", "\f"}

isdigit(c) == c \in Digits

isalpha(c) == c \in Letters

isspace(c) == c \in Spaces

\* strchr("+-*/^!()[]{}", c) != NULL, for a character c other than the terminator
OperatorChars == {"+", "-", "*", "/", "^", "!", "(", ")", "[", "]", "{", "}"}

\* token[i] of a C string held in a token buffer
CharAt(token, i) == IF i + 1 <= Len(token) THEN token[i + 1] ELSE NUL

(***************************************************************************)
(* Symbol tables                                                            *)
(***************************************************************************)
operators_str == << <<"+">>, <<"-">>, <<"*">>, <<"/">>, <<"^">>, <<"!">> >>

functions_str ==
    << <<"s", "q", "r", "t">>, <<"l", "o", "g">>, <<"l", "n">>,
       <<"s", "i", "n">>, <<"c", "o", "s">>, <<"t", "a", "n">>,
       <<"c", "o", "s", "h">>, <<"s", "i", "n", "h">>, <<"t", "a", "n", "h">>,
       <<"a", "s", "i", "n">>, <<"a", "c", "o", "s">>, <<"a", "t", "a", "n">>,
       <<"a", "r", "c", "s", "i", "n">>, <<"a", "r", "c", "c", "o", "s">>,
       <<"a", "r", "c", "t", "a", "n">> >>

OpenBrackets == { <<"(">>, <<"[">>, <<"{">> }

CloseBrackets == { <<")">>, <<"]">>, <<"}">> }

(***************************************************************************)
(* Classifiers                                                              *)
(***************************************************************************)
\* index of the first table entry equal to token, or -EINVAL
RPNCalculator_whichOperator(token) ==
    IF \E i \in 1..OP_COUNT : operators_str[i] = token
    THEN (CHOOSE i \in 1..OP_COUNT :
             /\ operators_str[i] = token
             /\ \A j \in 1..(i - 1) : operators_str[j] # token) - 1
    ELSE -EINVAL

RPNCalculator_whichFunction(token) ==
    IF \E i \in 1..FUNC_COUNT : functions_str[i] = token
    THEN (CHOOSE i \in 1..FUNC_COUNT :
             /\ functions_str[i] = token
             /\ \A j \in 1..(i - 1) : functions_str[j] # token) - 1
    ELSE -EINVAL

\* RPNCalculator_checkPrecedence whose comparisons are made on signed ints
RPNCalculator_checkPrecedence_Signed(token) ==
    LET function_index == RPNCalculator_whichFunction(token)
        operator_index == RPNCalculator_whichOperator(token)
        ret0 == FUNCTION_SUCCESS
        ret1 == IF function_index >= FUNCTION_SUCCESS
                   /\ operator_index < FUNCTION_SUCCESS
                THEN PRECEDENCE_1 ELSE ret0
        ret2 == IF function_index < FUNCTION_SUCCESS
                   /\ operator_index >= FUNCTION_SUCCESS
                THEN (IF operator_index = OP_FACT THEN PRECEDENCE_2
                      ELSE IF operator_index = OP_POW THEN PRECEDENCE_3
                      ELSE IF operator_index = OP_MUL THEN PRECEDENCE_4
                      ELSE IF operator_index = OP_DIV THEN PRECEDENCE_4
                      ELSE IF operator_index = OP_ADD THEN PRECEDENCE_5
                      ELSE IF operator_index = OP_SUB THEN PRECEDENCE_5
                      ELSE -EINVAL)
                ELSE ret1
        ret3 == IF function_index < FUNCTION_SUCCESS
                   /\ operator_index < FUNCTION_SUCCESS
                THEN -EINVAL ELSE ret2
    IN  ret3

\* ret starts as FUNCTION_SUCCESS and is overwritten by the last of the three
\* if-statements whose condition holds; each condition compares an int index
\* with the unsigned FUNCTION_SUCCESS.
RPNCalculator_checkPrecedence(token) ==
    LET function_index == RPNCalculator_whichFunction(token)
        operator_index == RPNCalculator_whichOperator(token)
        ret0 == FUNCTION_SUCCESS
        ret1 == IF GeU(function_index, FUNCTION_SUCCESS)
                   /\ LtU(operator_index, FUNCTION_SUCCESS)
                THEN PRECEDENCE_1 ELSE ret0
        ret2 == IF LtU(function_index, FUNCTION_SUCCESS)
                   /\ GeU(operator_index, FUNCTION_SUCCESS)
                THEN (IF operator_index = OP_FACT THEN PRECEDENCE_2
                      ELSE IF operator_index = OP_POW THEN PRECEDENCE_3
                      ELSE IF operator_index = OP_MUL THEN PRECEDENCE_4
                      ELSE IF operator_index = OP_DIV THEN PRECEDENCE_4
                      ELSE IF operator_index = OP_ADD THEN PRECEDENCE_5
                      ELSE IF operator_index = OP_SUB THEN PRECEDENCE_5
                      ELSE -EINVAL)
                ELSE ret1
        ret3 == IF LtU(function_index, FUNCTION_SUCCESS)
                   /\ LtU(operator_index, FUNCTION_SUCCESS)
                THEN -EINVAL ELSE ret2
    IN  ret3

RPNCalculator_isRightAssociative(token) ==
    IF token = operators_str[OP_POW + 1] \/ token = operators_str[OP_FACT + 1]
    THEN RIGHT_ASSOCIATIVE
    ELSE LEFT_ASSOCIATIVE

(***************************************************************************)
(* Stack containers.  A stack is [data, top]; data holds the slots written  *)
(* so far (slot i of the C array is data[i + 1]), slots above were never    *)
(* written.  A pop leaves the slot's content in place.  Every call site     *)
(* passes the address of a live struct, so the NULL-stack branch is not     *)
(* taken.                                                                   *)
(***************************************************************************)
Store(data, index, value) ==
    IF index + 1 <= Len(data)
    THEN [data EXCEPT ![index + 1] = value]
    ELSE Append(data, value)

Stack_pushOp(stack, value) ==
    IF GeU(stack.top, MAX_STACK_SIZE - SIZE_OFFSET)
    THEN [stack |-> stack, ret |-> -EINVAL]
    ELSE [stack |-> [top  |-> stack.top + 1,
                     data |-> Store(stack.data, stack.top + 1, value)],
          ret   |-> FUNCTION_SUCCESS]

Stack_popOp(stack) ==
    IF stack.top = EMPTY_TOP
    THEN [stack |-> stack, ret |-> NULL]
    ELSE [stack |-> [stack EXCEPT !.top = stack.top - 1],
          ret   |-> stack.data[stack.top + 1]]

Stack_peekOp(stack) ==
    IF stack.top = EMPTY_TOP
    THEN NULL
    ELSE stack.data[stack.top + 1]

\* Stack_isEmpty that takes a stack whose top is slot 0 for the empty one
Stack_isEmpty_SlotZero(stack) ==
    IF stack.top = 0 THEN STACK_EMPTY ELSE STACK_FULL

Stack_isEmpty(stack) ==
    IF stack.top = EMPTY_TOP THEN STACK_EMPTY ELSE STACK_FULL

(***************************************************************************)
(* double values.  A double is modelled exactly as a reduced fraction n/d   *)
(* while it is rational and its numerator and denominator fit the model's   *)
(* integers; every other double (irrational results of <math.h>, results    *)
(* beyond the integer range, infinities and NaN) is a symbol [sym] that     *)
(* names how it was produced and equals no fraction.                        *)
(***************************************************************************)
INT_MAX == 2147483647

Abs(x) == IF x < 0 THEN -x ELSE x

RECURSIVE GCD(_, _)
GCD(a, b) == IF b = 0 THEN a ELSE GCD(b, a % b)

Sym(tag, x, y) == [n |-> 0, d |-> 0, sym |-> <<tag, 0, x, y>>]

\* the result of the <math.h> function of index k at the fraction x/y
SymCall(k, x, y) == [n |-> 0, d |-> 0, sym |-> <<"fn", k, x, y>>]

Frac(n, d) ==
    LET g == GCD(Abs(n), Abs(d))
    IN  IF d < 0 THEN [n |-> -(n \div g), d |-> -(d \div g), sym |-> <<>>]
                 ELSE [n |-> n \div g, d |-> d \div g, sym |-> <<>>]

Dbl(i) == [n |-> i, d |-> 1, sym |-> <<>>]

IsFrac(x) == x.sym = <<>>

\* a * b and a + b stay inside the integers of the model
MulFits(a, b) == (b = 0) \/ (Abs(a) <= INT_MAX \div Abs(b))

AddFits(a, b) == Abs(a) <= INT_MAX - Abs(b)

DAdd(a, b) ==
    IF /\ IsFrac(a) /\ IsFrac(b)
       /\ MulFits(a.n, b.d) /\ MulFits(b.n, a.d) /\ MulFits(a.d, b.d)
       /\ AddFits(a.n * b.d, b.n * a.d)
    THEN Frac(a.n * b.d + b.n * a.d, a.d * b.d)
    ELSE Sym("add", 0, 0)

DNeg(a) == IF IsFrac(a) THEN [a EXCEPT !.n = -a.n] ELSE Sym("neg", 0, 0)

DSub(a, b) == IF IsFrac(b) THEN DAdd(a, DNeg(b)) ELSE Sym("sub", 0, 0)

DMul(a, b) ==
    IF IsFrac(a) /\ IsFrac(b) /\ MulFits(a.n, b.n) /\ MulFits(a.d, b.d)
    THEN Frac(a.n * b.n, a.d * b.d)
    ELSE Sym("mul", 0, 0)

\* a / b for b != 0
DDiv(a, b) ==
    IF IsFrac(a) /\ IsFrac(b) /\ b.n # 0 /\ MulFits(a.n, b.d) /\ MulFits(a.d, b.n)
    THEN Frac(a.n * b.d, a.d * b.n)
    ELSE Sym("div", 0, 0)

RECURSIVE IntPow(_, _)
IntPow(a, k) == IF k = 0 THEN Dbl(1) ELSE DMul(a, IntPow(a, k - 1))

\* pow(a, b) of <math.h>: exact for an integral exponent of small size
pow(a, b) ==
    IF IsFrac(a) /\ IsFrac(b) /\ b.d = 1 /\ Abs(b.n) <= 31
    THEN IF b.n >= 0 THEN IntPow(a, b.n)
         ELSE IF a.n # 0 THEN DDiv(Dbl(1), IntPow(a, -b.n))
         ELSE Sym("inf", 0, 0)
    ELSE Sym("pow", 0, 0)

DLt0(a) == IsFrac(a) /\ a.n < 0

\* a - (int)a != 0.0 for a >= 0
HasFraction(a) == ~(IsFrac(a) /\ a.d = 1)

DigitChars == <<"0", "1", "2", "3", "4", "5", "6", "7", "8", "9">>

DigitVal(c) == (CHOOSE i \in 1..10 : DigitChars[i] = c) - 1

\* the run of digits that starts at position i (1-based) of s
RECURSIVE DigitRun(_, _)
DigitRun(s, i) ==
    IF i <= Len(s) /\ isdigit(s[i]) THEN <<s[i]>> \o DigitRun(s, i + 1) ELSE <<>>

RECURSIVE DigitsValue(_)
DigitsValue(s) ==
    IF s = <<>> THEN 0
    ELSE 10 * DigitsValue(SubSeq(s, 1, Len(s) - 1)) + DigitVal(s[Len(s)])

RECURSIVE Pow10(_)
Pow10(k) == IF k = 0 THEN 1 ELSE 10 * Pow10(k - 1)

\* atof: the decimal prefix digits [ '.' digits ] of the token; exact while
\* it has at most nine digits
atof(token) ==
    LET ip == DigitRun(token, 1)
        fp == IF CharAt(token, Len(ip)) = "." THEN DigitRun(token, Len(ip) + 2)
              ELSE <<>>
    IN  IF Len(ip) + Len(fp) <= 9
        THEN Frac(DigitsValue(ip \o fp), Pow10(Len(fp)))
        ELSE Sym("atof", Len(ip), Len(fp))

Stack_pushVal(stack_val, value) ==
    IF GeU(stack_val.top, MAX_STACK_SIZE - SIZE_OFFSET)
    THEN [stack |-> stack_val, ret |-> -EINVAL]
    ELSE [stack |-> [top  |-> stack_val.top + 1,
                     data |-> Store(stack_val.data, stack_val.top + 1, value)],
          ret   |-> FUNCTION_SUCCESS]

\* the return value is a double: the popped value, or -EINVAL converted
Stack_popVal(stack_val) ==
    IF stack_val.top = EMPTY_TOP
    THEN [stack |-> stack_val, ret |-> Dbl(-EINVAL)]
    ELSE [stack |-> [stack_val EXCEPT !.top = stack_val.top - 1],
          ret   |-> stack_val.data[stack_val.top + 1]]

Stack_isEmptyVal(stack_val) ==
    IF stack_val.top = EMPTY_TOP THEN STACK_EMPTY ELSE STACK_FULL

(***************************************************************************)
(* Appliers                                                                 *)
(***************************************************************************)
RECURSIVE RPNCalculator_factorialCalculate(_)
RPNCalculator_factorialCalculate(number) ==
    IF number = 0 \/ number = 1
    THEN Dbl(1)
    ELSE DMul(Dbl(number), RPNCalculator_factorialCalculate(number - 1))

\* RPNCalculator_applyOperation that divides whatever the divisor is
RPNCalculator_applyOperation_AnyDivisor(operation, num_a, num_b) ==
    LET operation_index == RPNCalculator_whichOperator(operation)
    IN  IF operation_index = OP_ADD THEN DAdd(num_a, num_b)
        ELSE IF operation_index = OP_SUB THEN DSub(num_a, num_b)
        ELSE IF operation_index = OP_MUL THEN DMul(num_a, num_b)
        ELSE IF operation_index = OP_DIV THEN DDiv(num_a, num_b)
        ELSE IF operation_index = OP_POW THEN pow(num_a, num_b)
        ELSE Dbl(-EINVAL)

RPNCalculator_applyOperation(operation, num_a, num_b) ==
    LET operation_index == RPNCalculator_whichOperator(operation)
    IN  IF operation_index = OP_ADD THEN DAdd(num_a, num_b)
        ELSE IF operation_index = OP_SUB THEN DSub(num_a, num_b)
        ELSE IF operation_index = OP_MUL THEN DMul(num_a, num_b)
        ELSE IF operation_index = OP_DIV /\ num_b # Dbl(0) THEN DDiv(num_a, num_b)
        ELSE IF operation_index = OP_POW THEN pow(num_a, num_b)
        ELSE Dbl(-EINVAL)

\* exact integer square root, or -1
RECURSIVE IntSqrtFrom(_, _)
IntSqrtFrom(x, r) ==
    IF r * r = x THEN r ELSE IF r * r > x \/ r >= 46340 THEN -1 ELSE IntSqrtFrom(x, r + 1)

\* the <math.h> function of index function_index: exact where the result is
\* rational for the rational argument, a symbol of the call otherwise
MathFunction(function_index, number) ==
    LET zero == IsFrac(number) /\ number.n = 0
        call == IF IsFrac(number) THEN SymCall(function_index, number.n, number.d)
                ELSE Sym("fn", 0, 0)
    IN  IF function_index = 0
        THEN IF IsFrac(number) /\ number.n >= 0
                /\ IntSqrtFrom(number.n, 0) >= 0 /\ IntSqrtFrom(number.d, 0) >= 0
             THEN Frac(IntSqrtFrom(number.n, 0), IntSqrtFrom(number.d, 0))
             ELSE call
        ELSE IF function_index \in {1, 2}
        THEN IF number = Dbl(1) THEN Dbl(0) ELSE call
        ELSE IF function_index \in {4, 6, 10, 13}
        THEN IF zero THEN (IF function_index \in {4, 6} THEN Dbl(1) ELSE call)
             ELSE IF number = Dbl(1) /\ function_index \in {10, 13} THEN Dbl(0)
             ELSE call
        ELSE IF zero THEN Dbl(0) ELSE call

RPNCalculator_applyFunction(function, number) ==
    LET function_index == RPNCalculator_whichFunction(function)
    IN  IF function_index \in 0..(FUNC_COUNT - 1)
        THEN MathFunction(function_index, number)
        ELSE Dbl(-EINVAL)

(***************************************************************************)
(* State                                                                    *)
(***************************************************************************)
VARIABLES
    pc,            \* the function the caller is in, or "done" / "stack"
    expression,    \* the input string of RPNCalculator_tokenize
    iterator,      \* local of the running function
    char_index,    \* local of RPNCalculator_tokenize
    total_tokens,  \* local of RPNCalculator_tokenize / _infixToPostfix
    tokens,        \* the token array, as far as it was written
    output,        \* the postfix array, as far as it was written
    number,        \* the count passed to _infixToPostfix / _evaluatePostfix
    op_stack,      \* stack_op_t
    val_stack,     \* stack_val_t
    ran,           \* the functions of the pipeline that have returned
    tokenize_ret,  \* return value of RPNCalculator_tokenize
    postfix_ret,   \* return value of RPNCalculator_infixToPostfix
    eval_ret,      \* return value of RPNCalculator_evaluatePostfix
    log,           \* the stack calls made so far, each with its result
    current_machine,  \* state_machine.c: *current_machine of main, or NULL
    state,            \* state_machine.c: local of main
    process_ret,      \* state_machine.c: local of main
    break_condition,  \* state_machine.c: local of main
    stdin             \* state_machine.c: the characters not yet read

\* state_machine.c is a program of its own; its variables stay as they are
\* while the calculator runs, and the calculator's while the menu runs
menu_vars == <<current_machine, state, process_ret, break_condition, stdin>>

rpn_vars == <<expression, iterator, char_index, total_tokens, tokens, output,
              number, op_stack, val_stack, ran, tokenize_ret, postfix_ret,
              eval_ret, log>>

vars == <<pc, expression, iterator, char_index, total_tokens, tokens, output,
          number, op_stack, val_stack, ran, tokenize_ret, postfix_ret,
          eval_ret, log, current_machine, state, process_ret,
          break_condition, stdin>>

\* the null pointer to a machine (a machine is a record)
NullMachine == [machine |-> "NULL"]

NoMenu ==
    /\ current_machine = NullMachine
    /\ state = 0
    /\ process_ret = 0
    /\ break_condition = FALSE
    /\ stdin = <<>>

\* stack = {0u}; stack.top = EMPTY_TOP;
EmptyStack == [data |-> <<>>, top |-> EMPTY_TOP]

(***************************************************************************)
(* Tokenizer                                                                *)
(***************************************************************************)
\* number of characters the inner while loop consumes from position it
\* (0-based) on, given it has already stored k of them
RECURSIVE ScanRun(_, _, _, _)
ScanRun(expr, it, k, class) ==
    IF /\ it < Len(expr)
       /\ expr[it + 1] \in class
       /\ k < MAX_TOKEN_LENGTH - 1
    THEN ScanRun(expr, it + 1, k + 1, class)
    ELSE k

NumberChars == Digits \cup {"."}

\* TokenizeBody whose whitespace branch does not advance the iterator
TokenizeBody_NoAdvance(expr, it, ci, tt, toks) ==
    LET c    == expr[it + 1]
        same == [iterator |-> it, char_index |-> ci, total_tokens |-> tt,
                 tokens |-> toks, ret |-> FUNCTION_SUCCESS]
        full == [same EXCEPT !.ret = -EINVAL]
        nrun == ScanRun(expr, it, 0, NumberChars)
        arun == ScanRun(expr, it, 0, Letters)
    IN  IF isspace(c)
        THEN same
        ELSE IF (isdigit(c) \/ c = ".") /\ ci < MAX_TOKEN_LENGTH - 1
        THEN IF tt >= MAX_NUM_TOKENS THEN full
             ELSE [iterator |-> it + nrun, char_index |-> nrun,
                   total_tokens |-> tt + 1,
                   tokens |-> Store(toks, tt, SubSeq(expr, it + 1, it + nrun)),
                   ret |-> FUNCTION_SUCCESS]
        ELSE IF isalpha(c)
        THEN IF tt >= MAX_NUM_TOKENS THEN full
             ELSE [iterator |-> it + arun, char_index |-> arun,
                   total_tokens |-> tt + 1,
                   tokens |-> Store(toks, tt, SubSeq(expr, it + 1, it + arun)),
                   ret |-> FUNCTION_SUCCESS]
        ELSE IF c \in OperatorChars
        THEN IF tt >= MAX_NUM_TOKENS THEN full
             ELSE [iterator |-> it + 1, char_index |-> ci,
                   total_tokens |-> tt + 1,
                   tokens |-> Store(toks, tt, <<c>>),
                   ret |-> FUNCTION_SUCCESS]
        ELSE full

\* TokenizeBody that steps over a character it does not know
TokenizeBody_SkipUnknown(expr, it, ci, tt, toks) ==
    LET c    == expr[it + 1]
        same == [iterator |-> it, char_index |-> ci, total_tokens |-> tt,
                 tokens |-> toks, ret |-> FUNCTION_SUCCESS]
        full == [same EXCEPT !.ret = -EINVAL]
        nrun == ScanRun(expr, it, 0, NumberChars)
        arun == ScanRun(expr, it, 0, Letters)
    IN  IF isspace(c)
        THEN [same EXCEPT !.iterator = it + 1]
        ELSE IF (isdigit(c) \/ c = ".") /\ ci < MAX_TOKEN_LENGTH - 1
        THEN IF tt >= MAX_NUM_TOKENS THEN full
             ELSE [iterator |-> it + nrun, char_index |-> nrun,
                   total_tokens |-> tt + 1,
                   tokens |-> Store(toks, tt, SubSeq(expr, it + 1, it + nrun)),
                   ret |-> FUNCTION_SUCCESS]
        ELSE IF isalpha(c)
        THEN IF tt >= MAX_NUM_TOKENS THEN full
             ELSE [iterator |-> it + arun, char_index |-> arun,
                   total_tokens |-> tt + 1,
                   tokens |-> Store(toks, tt, SubSeq(expr, it + 1, it + arun)),
                   ret |-> FUNCTION_SUCCESS]
        ELSE IF c \in OperatorChars
        THEN IF tt >= MAX_NUM_TOKENS THEN full
             ELSE [iterator |-> it + 1, char_index |-> ci,
                   total_tokens |-> tt + 1,
                   tokens |-> Store(toks, tt, <<c>>),
                   ret |-> FUNCTION_SUCCESS]
        ELSE [same EXCEPT !.iterator = it + 1]

\* TokenizeBody whose operator branch stores its token without the bound check
TokenizeBody_NoBound(expr, it, ci, tt, toks) ==
    LET c    == expr[it + 1]
        same == [iterator |-> it, char_index |-> ci, total_tokens |-> tt,
                 tokens |-> toks, ret |-> FUNCTION_SUCCESS]
        full == [same EXCEPT !.ret = -EINVAL]
        nrun == ScanRun(expr, it, 0, NumberChars)
        arun == ScanRun(expr, it, 0, Letters)
    IN  IF isspace(c)
        THEN [same EXCEPT !.iterator = it + 1]
        ELSE IF (isdigit(c) \/ c = ".") /\ ci < MAX_TOKEN_LENGTH - 1
        THEN IF tt >= MAX_NUM_TOKENS THEN full
             ELSE [iterator |-> it + nrun, char_index |-> nrun,
                   total_tokens |-> tt + 1,
                   tokens |-> Store(toks, tt, SubSeq(expr, it + 1, it + nrun)),
                   ret |-> FUNCTION_SUCCESS]
        ELSE IF isalpha(c)
        THEN IF tt >= MAX_NUM_TOKENS THEN full
             ELSE [iterator |-> it + arun, char_index |-> arun,
                   total_tokens |-> tt + 1,
                   tokens |-> Store(toks, tt, SubSeq(expr, it + 1, it + arun)),
                   ret |-> FUNCTION_SUCCESS]
        ELSE IF c \in OperatorChars
        THEN IF FALSE THEN full
             ELSE [iterator |-> it + 1, char_index |-> ci,
                   total_tokens |-> tt + 1,
                   tokens |-> Store(toks, tt, <<c>>),
                   ret |-> FUNCTION_SUCCESS]
        ELSE full

\* TokenizeBody whose letter branch keeps only the first letter of the run
TokenizeBody_FirstLetter(expr, it, ci, tt, toks) ==
    LET c    == expr[it + 1]
        same == [iterator |-> it, char_index |-> ci, total_tokens |-> tt,
                 tokens |-> toks, ret |-> FUNCTION_SUCCESS]
        full == [same EXCEPT !.ret = -EINVAL]
        nrun == ScanRun(expr, it, 0, NumberChars)
        arun == ScanRun(expr, it, 0, Letters)
    IN  IF isspace(c)
        THEN [same EXCEPT !.iterator = it + 1]
        ELSE IF (isdigit(c) \/ c = ".") /\ ci < MAX_TOKEN_LENGTH - 1
        THEN IF tt >= MAX_NUM_TOKENS THEN full
             ELSE [iterator |-> it + nrun, char_index |-> nrun,
                   total_tokens |-> tt + 1,
                   tokens |-> Store(toks, tt, SubSeq(expr, it + 1, it + nrun)),
                   ret |-> FUNCTION_SUCCESS]
        ELSE IF isalpha(c)
        THEN IF tt >= MAX_NUM_TOKENS THEN full
             ELSE [iterator |-> it + arun, char_index |-> arun,
                   total_tokens |-> tt + 1,
                   tokens |-> Store(toks, tt, <<c>>),
                   ret |-> FUNCTION_SUCCESS]
        ELSE IF c \in OperatorChars
        THEN IF tt >= MAX_NUM_TOKENS THEN full
             ELSE [iterator |-> it + 1, char_index |-> ci,
                   total_tokens |-> tt + 1,
                   tokens |-> Store(toks, tt, <<c>>),
                   ret |-> FUNCTION_SUCCESS]
        ELSE full

\* one pass of the body of the outer while loop, at expression[it] != '\0'
TokenizeBody(expr, it, ci, tt, toks) ==
    LET c    == expr[it + 1]
        same == [iterator |-> it, char_index |-> ci, total_tokens |-> tt,
                 tokens |-> toks, ret |-> FUNCTION_SUCCESS]
        full == [same EXCEPT !.ret = -EINVAL]
        nrun == ScanRun(expr, it, 0, NumberChars)
        arun == ScanRun(expr, it, 0, Letters)
    IN  IF isspace(c)
        THEN [same EXCEPT !.iterator = it + 1]
        ELSE IF (isdigit(c) \/ c = ".") /\ ci < MAX_TOKEN_LENGTH - 1
        THEN IF tt >= MAX_NUM_TOKENS THEN full
             ELSE [iterator |-> it + nrun, char_index |-> nrun,
                   total_tokens |-> tt + 1,
                   tokens |-> Store(toks, tt, SubSeq(expr, it + 1, it + nrun)),
                   ret |-> FUNCTION_SUCCESS]
        ELSE IF isalpha(c)
        THEN IF tt >= MAX_NUM_TOKENS THEN full
             ELSE [iterator |-> it + arun, char_index |-> arun,
                   total_tokens |-> tt + 1,
                   tokens |-> Store(toks, tt, SubSeq(expr, it + 1, it + arun)),
                   ret |-> FUNCTION_SUCCESS]
        ELSE IF c \in OperatorChars
        THEN IF tt >= MAX_NUM_TOKENS THEN full
             ELSE [iterator |-> it + 1, char_index |-> ci,
                   total_tokens |-> tt + 1,
                   tokens |-> Store(toks, tt, <<c>>),
                   ret |-> FUNCTION_SUCCESS]
        ELSE full

(***************************************************************************)
(* Calls.  The converter and the evaluator report, next to their result,   *)
(* the calls they made to the stack interface and to the appliers, in      *)
(* program order: each with the stack it was made on, its argument and its *)
(* return value.                                                            *)
(***************************************************************************)
Call(fn, before, arg, ret) ==
    [fn |-> fn, before |-> before, arg |-> arg, ret |-> ret]

(***************************************************************************)
(* Shunting-yard converter                                                  *)
(***************************************************************************)
IsNumberToken(token) ==
    \/ isdigit(CharAt(token, FIRST_VALUE))
    \/ (CharAt(token, FIRST_VALUE) = "." /\ isdigit(CharAt(token, SECOND_VALUE)))

\* the while loop of the closing-bracket branch: pop to the output until the
\* stack is empty or its top is an opening bracket
RECURSIVE PopUntilOpen(_, _, _)
PopUntilOpen(stack, out, tt) ==
    LET top_token == Stack_peekOp(stack)
        peeked    == Call("Stack_peekOp", stack, NULL, top_token)
        popped    == Call("Stack_popOp", stack, NULL, Stack_popOp(stack).ret)
        rest      == PopUntilOpen(Stack_popOp(stack).stack,
                                  Store(out, tt, Stack_popOp(stack).ret), tt + 1)
    IN  IF top_token # NULL /\ top_token \notin OpenBrackets
        THEN [rest EXCEPT !.calls = <<peeked, popped>> \o @]
        ELSE [stack |-> stack, output |-> out, total_tokens |-> tt,
              calls |-> <<peeked>>]

\* the condition under which the operator branch pops top_token before token
PopsBefore(top_token, token) ==
    \/ GeU(RPNCalculator_whichFunction(top_token), FUNCTION_SUCCESS)
    \/ /\ GeU(RPNCalculator_whichOperator(top_token), FUNCTION_SUCCESS)
       /\ \/ RPNCalculator_checkPrecedence(top_token)
                < RPNCalculator_checkPrecedence(token)
          \/ /\ RPNCalculator_checkPrecedence(top_token)
                   = RPNCalculator_checkPrecedence(token)
             /\ RPNCalculator_isRightAssociative(token) = 0

\* the while loop of the operator branch
RECURSIVE PopOperators(_, _, _, _)
PopOperators(stack, out, tt, token) ==
    LET asked  == Call("Stack_isEmpty", stack, NULL, Stack_isEmpty(stack))
        peeked == Call("Stack_peekOp", stack, NULL, Stack_peekOp(stack))
        popped == Call("Stack_popOp", stack, NULL, Stack_popOp(stack).ret)
        rest   == PopOperators(Stack_popOp(stack).stack,
                               Store(out, tt, Stack_popOp(stack).ret), tt + 1,
                               token)
    IN  IF Stack_isEmpty(stack) = 0 /\ PopsBefore(Stack_peekOp(stack), token)
        THEN [rest EXCEPT !.calls = <<asked, peeked, popped>> \o @]
        ELSE [stack |-> stack, output |-> out, total_tokens |-> tt,
              calls |-> IF Stack_isEmpty(stack) = 0 THEN <<asked, peeked>>
                        ELSE <<asked>>]

\* one pass of the body of the for loop, on tokens[iterator]
InfixToPostfixBody(token, stack, out, tt) ==
    LET same   == [stack |-> stack, output |-> out, total_tokens |-> tt,
                   ret |-> FUNCTION_SUCCESS, calls |-> <<>>]
        pushed == [same EXCEPT
                     !.stack = Stack_pushOp(stack, token).stack,
                     !.calls = <<Call("Stack_pushOp", stack, token,
                                      Stack_pushOp(stack, token).ret)>>]
        closed == PopUntilOpen(stack, out, tt)
        opened == Stack_popOp(closed.stack).stack
        ftop   == Stack_peekOp(opened)
        unbr   == closed.calls
                    \o <<Call("Stack_popOp", closed.stack, NULL,
                              Stack_popOp(closed.stack).ret),
                         Call("Stack_peekOp", opened, NULL, ftop)>>
        ops    == PopOperators(stack, out, tt, token)
    IN  IF IsNumberToken(token)
        THEN [same EXCEPT !.output = Store(out, tt, token),
                          !.total_tokens = tt + 1]
        ELSE IF GeU(RPNCalculator_whichFunction(token), FUNCTION_SUCCESS)
        THEN pushed
        ELSE IF token \in OpenBrackets
        THEN pushed
        ELSE IF token \in CloseBrackets
        THEN IF Stack_peekOp(closed.stack) = NULL
             THEN [stack |-> closed.stack, output |-> closed.output,
                   total_tokens |-> closed.total_tokens, ret |-> -EINVAL,
                   calls |-> closed.calls]
             ELSE IF ftop # NULL
                     /\ GeU(RPNCalculator_whichFunction(ftop), FUNCTION_SUCCESS)
             THEN [stack |-> Stack_popOp(opened).stack,
                   output |-> Store(closed.output, closed.total_tokens,
                                    Stack_popOp(opened).ret),
                   total_tokens |-> closed.total_tokens + 1,
                   ret |-> FUNCTION_SUCCESS,
                   calls |-> Append(unbr, Call("Stack_popOp", opened, NULL,
                                               Stack_popOp(opened).ret))]
             ELSE [stack |-> opened, output |-> closed.output,
                   total_tokens |-> closed.total_tokens,
                   ret |-> FUNCTION_SUCCESS, calls |-> unbr]
        ELSE IF GeU(RPNCalculator_whichOperator(token), FUNCTION_SUCCESS)
        THEN [stack |-> Stack_pushOp(ops.stack, token).stack,
              output |-> ops.output, total_tokens |-> ops.total_tokens,
              ret |-> FUNCTION_SUCCESS,
              calls |-> Append(ops.calls,
                               Call("Stack_pushOp", ops.stack, token,
                                    Stack_pushOp(ops.stack, token).ret))]
        ELSE [same EXCEPT !.ret = -EINVAL]

\* the loop that pops the remaining operators, and the return value
RECURSIVE PopRemaining(_, _, _)
PopRemaining(stack, out, tt) ==
    LET asked  == Call("Stack_isEmpty", stack, NULL, Stack_isEmpty(stack))
        popped == Call("Stack_popOp", stack, NULL, Stack_popOp(stack).ret)
        rest   == PopRemaining(Stack_popOp(stack).stack,
                               Store(out, tt, Stack_popOp(stack).ret), tt + 1)
    IN  IF Stack_isEmpty(stack) = 0
        THEN IF Stack_popOp(stack).ret \in OpenBrackets
             THEN [stack |-> Stack_popOp(stack).stack, output |-> out,
                   total_tokens |-> tt, ret |-> -EINVAL,
                   calls |-> <<asked, popped>>]
             ELSE [rest EXCEPT !.calls = <<asked, popped>> \o @]
        ELSE [stack |-> stack, output |-> out, total_tokens |-> tt, ret |-> tt,
              calls |-> <<asked>>]

\* the for loop from tokens[i] on, then the loop that pops the rest
RECURSIVE InfixToPostfixFrom(_, _, _, _, _)
InfixToPostfixFrom(toks, i, stack, out, tt) ==
    LET r == InfixToPostfixBody(toks[i + 1], stack, out, tt)
    IN  IF i >= Len(toks)
        THEN PopRemaining(stack, out, tt)
        ELSE IF r.ret # FUNCTION_SUCCESS
        THEN r
        ELSE [InfixToPostfixFrom(toks, i + 1, r.stack, r.output, r.total_tokens)
                EXCEPT !.calls = r.calls \o @]

\* a whole call: the operator stack starts empty, the output array is the
\* caller's fresh buffer
RPNCalculator_infixToPostfix(toks) ==
    InfixToPostfixFrom(toks, 0, EmptyStack, <<>>, 0)

(***************************************************************************)
(* Postfix evaluator                                                        *)
(***************************************************************************)
\* one pass of the body of the for loop, on output[iterator]; err is the
\* jump to end_of_function with ret = -EINVAL
EvaluateBody(token, stack) ==
    LET ok(st, cs)   == [stack |-> st, err |-> FALSE, calls |-> cs]
        fail(st, cs) == [stack |-> st, err |-> TRUE, calls |-> cs]
        pushed(st, v) == Call("Stack_pushVal", st, v, Stack_pushVal(st, v).ret)
        popped(st)    == Call("Stack_popVal", st, NULL, Stack_popVal(st).ret)
        asked         == Call("Stack_isEmptyVal", stack, NULL,
                              Stack_isEmptyVal(stack))
        pushNum  == Stack_pushVal(stack, atof(token))
        \* factorial
        popA     == Stack_popVal(stack)
        fact     == RPNCalculator_factorialCalculate(popA.ret.n)
        pushFact == Stack_pushVal(popA.stack, fact)
        factCs   == <<asked, popped(stack),
                      Call("RPNCalculator_factorialCalculate", EmptyStack,
                           popA.ret, fact)>>
        \* binary operator
        popB     == Stack_popVal(stack)
        popA2    == Stack_popVal(popB.stack)
        binRes   == RPNCalculator_applyOperation(token, popA2.ret, popB.ret)
        pushBin  == Stack_pushVal(popA2.stack, binRes)
        binCs    == <<popped(stack), popped(popB.stack),
                      Call("RPNCalculator_applyOperation", EmptyStack,
                           <<token, popA2.ret, popB.ret>>, binRes)>>
        \* function
        fnRes    == RPNCalculator_applyFunction(token, popA.ret)
        pushFn   == Stack_pushVal(popA.stack, fnRes)
        fnCs     == <<asked, popped(stack),
                      Call("RPNCalculator_applyFunction", EmptyStack,
                           <<token, popA.ret>>, fnRes)>>
    IN  IF IsNumberToken(token)
        THEN IF pushNum.ret # FUNCTION_SUCCESS
             THEN fail(pushNum.stack, <<pushed(stack, atof(token))>>)
             ELSE ok(pushNum.stack, <<pushed(stack, atof(token))>>)
        ELSE IF GeU(RPNCalculator_whichOperator(token), FUNCTION_SUCCESS)
        THEN IF token = operators_str[OP_FACT + 1]
             THEN IF Stack_isEmptyVal(stack) = STACK_EMPTY
                  THEN fail(stack, <<asked>>)
                  ELSE IF DLt0(popA.ret) \/ HasFraction(popA.ret)
                  THEN fail(popA.stack, <<asked, popped(stack)>>)
                  ELSE IF pushFact.ret # FUNCTION_SUCCESS
                  THEN fail(pushFact.stack,
                            Append(factCs, pushed(popA.stack, fact)))
                  ELSE ok(pushFact.stack,
                          Append(factCs, pushed(popA.stack, fact)))
             ELSE IF LtU(stack.top, 1) THEN fail(stack, <<>>)
                  ELSE IF binRes = Dbl(-EINVAL) THEN fail(popA2.stack, binCs)
                  ELSE IF pushBin.ret # FUNCTION_SUCCESS
                  THEN fail(pushBin.stack,
                            Append(binCs, pushed(popA2.stack, binRes)))
                  ELSE ok(pushBin.stack,
                          Append(binCs, pushed(popA2.stack, binRes)))
        ELSE IF GeU(RPNCalculator_whichFunction(token), FUNCTION_SUCCESS)
        THEN IF Stack_isEmptyVal(stack) = STACK_EMPTY
             THEN fail(stack, <<asked>>)
             ELSE IF fnRes = Dbl(-EINVAL) THEN fail(popA.stack, fnCs)
             ELSE IF pushFn.ret # FUNCTION_SUCCESS
             THEN fail(pushFn.stack, Append(fnCs, pushed(popA.stack, fnRes)))
             ELSE ok(pushFn.stack, Append(fnCs, pushed(popA.stack, fnRes)))
        ELSE fail(stack, <<>>)

\* end_of_function: a negative return value resets the stack
EvaluateEnd(stack, ret) ==
    IF DLt0(ret) THEN [stack EXCEPT !.top = EMPTY_TOP] ELSE stack

(***************************************************************************)
(* Inputs                                                                   *)
(***************************************************************************)
\* longest string of ExprShort
MaxLen == 3

\* largest n of the expressions "n!"
MaxFact == 6

\* number of calls in a run of the stack interface
MaxCalls == 4

\* depth of the enumerated stacks the stack interface starts from
MaxDepth == 2

RECURSIVE NatToken(_)
NatToken(n) ==
    IF n < 10 THEN <<DigitChars[n + 1]>>
    ELSE NatToken(n \div 10) \o <<DigitChars[(n % 10) + 1]>>

Lits == { <<"2">>, <<"3">>, <<"4">>, <<"8">> }

BinOps == { "+", "-", "*", "/", "^" }

Gaps == { <<>>, <<" ">> }

BracketPairs == { <<"(", ")">>, <<"[", "]">>, <<"{", "}">>, <<"(", "]">> }

FunctionNames == { functions_str[i] : i \in 1..FUNC_COUNT }

\* a op1 b op2 c, written with or without blanks
ExprPrec ==
    { a \o g \o <<o1>> \o g \o b \o g \o <<o2>> \o g \o c :
        a \in Lits, b \in Lits, c \in Lits, o1 \in BinOps, o2 \in BinOps,
        g \in Gaps }

\* ( a op1 b ) op2 c
ExprBracket ==
    { <<br[1]>> \o a \o <<o1>> \o <<"4">> \o <<br[2]>> \o <<o2>> \o c :
        a \in Lits, c \in Lits, o1 \in BinOps, o2 \in BinOps,
        br \in BracketPairs }

\* f ( a ) and f ( a op b )
ExprFunc ==
    { f \o <<"(">> \o a \o <<")">> : f \in FunctionNames,
                                      a \in Lits \cup { <<"1", "6">> } }
    \cup
    { f \o <<"(">> \o a \o <<o>> \o <<"2">> \o <<")">> :
        f \in FunctionNames, a \in Lits, o \in BinOps }

\* n !
ExprFact == { NatToken(n) \o <<"!">> : n \in 0..MaxFact }

Sigma == { "3", ".", "+", "!", "(", ")", " ", "s", "#" }

\* every string over Sigma of length at most MaxLen
ExprShort == UNION { [1..k -> Sigma] : k \in 0..MaxLen }

\* a bracket that is never closed, "( a op 4", and a closing bracket that was
\* never opened, "a op 4 )" and "a op 4 ) op 2"
ExprUnbalanced ==
    { <<br>> \o a \o <<o>> \o <<"4">> :
        br \in {"(", "[", "{"}, a \in Lits, o \in BinOps }
    \cup
    { a \o <<o>> \o <<"4">> \o <<br>> \o tail :
        br \in {")", "]", "}"}, a \in Lits, o \in BinOps,
        tail \in { <<>>, <<"*", "2">> } }

\* a function name directly before its operand and an operator, "f a op 4",
\* bare and inside brackets
ExprFuncOp ==
    { f \o a \o <<o>> \o <<"4">> :
        f \in FunctionNames, a \in Lits, o \in BinOps }
    \cup
    { <<"(">> \o f \o a \o <<o>> \o <<"4">> \o <<")">> :
        f \in FunctionNames, a \in Lits, o \in BinOps }

Expressions ==
    ExprPrec \cup ExprBracket \cup ExprFunc \cup ExprFact \cup ExprShort
        \cup ExprUnbalanced \cup ExprFuncOp

(***************************************************************************)
(* The pipeline  expression -> tokenize -> infixToPostfix -> evaluatePostfix *)
(* Each stage is entered with the count its predecessor returned, and only  *)
(* if that count is no error code.                                          *)
(***************************************************************************)
Init ==
    /\ pc = "tokenize"
    /\ expression \in Expressions
    /\ iterator = 0
    /\ char_index = 0
    /\ total_tokens = 0
    /\ tokens = <<>>
    /\ output = <<>>
    /\ number = 0
    /\ op_stack = EmptyStack
    /\ val_stack = EmptyStack
    /\ ran = {}
    /\ tokenize_ret = 0
    /\ postfix_ret = 0
    /\ eval_ret = Dbl(0)
    /\ log = <<>>
    /\ NoMenu

TokenizeStep ==
    /\ pc = "tokenize"
    /\ iterator < Len(expression)
    /\ LET r == TokenizeBody(expression, iterator, char_index, total_tokens, tokens)
       IN  /\ iterator' = r.iterator
           /\ char_index' = r.char_index
           /\ total_tokens' = r.total_tokens
           /\ tokens' = r.tokens
           /\ IF r.ret = FUNCTION_SUCCESS
              THEN UNCHANGED <<pc, ran, tokenize_ret>>
              ELSE /\ pc' = "done"
                   /\ ran' = ran \cup {"tokenize"}
                   /\ tokenize_ret' = r.ret
    /\ UNCHANGED <<expression, output, number, op_stack, val_stack,
                   postfix_ret, eval_ret, log>>
    /\ UNCHANGED menu_vars

TokenizeReturn ==
    /\ pc = "tokenize"
    /\ iterator = Len(expression)
    /\ tokenize_ret' = total_tokens
    /\ ran' = ran \cup {"tokenize"}
    /\ pc' = "infixToPostfix"
    /\ number' = total_tokens
    /\ iterator' = 0
    /\ total_tokens' = 0
    /\ op_stack' = EmptyStack
    /\ UNCHANGED <<expression, char_index, tokens, output, val_stack,
                   postfix_ret, eval_ret, log>>
    /\ UNCHANGED menu_vars

InfixToPostfixStep ==
    /\ pc = "infixToPostfix"
    /\ iterator < number
    /\ LET r == InfixToPostfixBody(tokens[iterator + 1], op_stack, output,
                                   total_tokens)
       IN  /\ op_stack' = r.stack
           /\ output' = r.output
           /\ total_tokens' = r.total_tokens
           /\ log' = log \o r.calls
           /\ IF r.ret = FUNCTION_SUCCESS
              THEN /\ iterator' = iterator + 1
                   /\ UNCHANGED <<pc, ran, postfix_ret>>
              ELSE /\ pc' = "done"
                   /\ ran' = ran \cup {"infixToPostfix"}
                   /\ postfix_ret' = r.ret
                   /\ UNCHANGED iterator
    /\ UNCHANGED <<expression, char_index, tokens, number, val_stack,
                   tokenize_ret, eval_ret>>
    /\ UNCHANGED menu_vars

InfixToPostfixReturn ==
    /\ pc = "infixToPostfix"
    /\ iterator = number
    /\ LET r == PopRemaining(op_stack, output, total_tokens)
       IN  /\ op_stack' = r.stack
           /\ output' = r.output
           /\ postfix_ret' = r.ret
           /\ log' = log \o r.calls
           /\ ran' = ran \cup {"infixToPostfix"}
           /\ IF r.ret < 0
              THEN /\ pc' = "done"
                   /\ total_tokens' = r.total_tokens
                   /\ UNCHANGED <<iterator, number, val_stack>>
              ELSE /\ pc' = "evaluatePostfix"
                   /\ number' = r.ret
                   /\ iterator' = 0
                   /\ total_tokens' = r.total_tokens
                   /\ val_stack' = EmptyStack
    /\ UNCHANGED <<expression, char_index, tokens, tokenize_ret, eval_ret>>
    /\ UNCHANGED menu_vars

EvaluateStep ==
    /\ pc = "evaluatePostfix"
    /\ iterator < number
    /\ LET r == EvaluateBody(output[iterator + 1], val_stack)
       IN  /\ log' = log \o r.calls
           /\ IF r.err
              THEN /\ eval_ret' = Dbl(-EINVAL)
                   /\ val_stack' = EvaluateEnd(r.stack, Dbl(-EINVAL))
                   /\ ran' = ran \cup {"evaluatePostfix"}
                   /\ pc' = "done"
                   /\ UNCHANGED iterator
              ELSE /\ val_stack' = r.stack
                   /\ iterator' = iterator + 1
                   /\ UNCHANGED <<eval_ret, ran, pc>>
    /\ UNCHANGED <<expression, char_index, total_tokens, tokens, output,
                   number, op_stack, tokenize_ret, postfix_ret>>
    /\ UNCHANGED menu_vars

EvaluateReturn ==
    /\ pc = "evaluatePostfix"
    /\ iterator = number
    /\ LET popped == Stack_popVal(val_stack)
           ret    == IF val_stack.top # 0 THEN Dbl(-EINVAL) ELSE popped.ret
           stack  == IF val_stack.top # 0 THEN val_stack ELSE popped.stack
       IN  /\ eval_ret' = ret
           /\ val_stack' = EvaluateEnd(stack, ret)
           /\ log' = IF val_stack.top # 0 THEN log
                     ELSE Append(log, Call("Stack_popVal", val_stack, NULL,
                                           popped.ret))
    /\ ran' = ran \cup {"evaluatePostfix"}
    /\ pc' = "done"
    /\ UNCHANGED <<expression, iterator, char_index, total_tokens, tokens,
                   output, number, op_stack, tokenize_ret, postfix_ret>>
    /\ UNCHANGED menu_vars

Next ==
    \/ TokenizeStep
    \/ TokenizeReturn
    \/ InfixToPostfixStep
    \/ InfixToPostfixReturn
    \/ EvaluateStep
    \/ EvaluateReturn

Spec == Init /\ [][Next]_vars

(***************************************************************************)
(* The stack interface on its own, from the empty stack that                *)
(* RPNCalculator.c builds (top = EMPTY_TOP).  Each call is logged with the  *)
(* stack it was made on, its argument and its return value.                 *)
(* OpStackInputs and ValStackInputs are the well-formed structs a caller    *)
(* can hand to a single call: the empty one, shallow stacks of every        *)
(* content, and stacks at and one below MAX_STACK_SIZE.                     *)
(***************************************************************************)
StackTokens == { <<"+">>, <<"(">> }

StackValues == { Dbl(-EINVAL), Dbl(5) }

StackOf(data) == [data |-> data, top |-> Len(data) - 1]

OpStackInputs ==
    { StackOf(d) : d \in UNION { [1..k -> StackTokens] : k \in 0..MaxDepth } }
    \cup { StackOf([i \in 1..k |-> <<"+">>]) :
             k \in {MAX_STACK_SIZE - 1, MAX_STACK_SIZE} }

ValStackInputs ==
    { StackOf(d) : d \in UNION { [1..k -> StackValues] : k \in 0..MaxDepth } }
    \cup { StackOf([i \in 1..k |-> Dbl(5)]) :
             k \in {MAX_STACK_SIZE - 1, MAX_STACK_SIZE} }

StackIdle ==
    /\ pc = "stack"
    /\ expression = <<>>
    /\ iterator = 0
    /\ char_index = 0
    /\ total_tokens = 0
    /\ tokens = <<>>
    /\ output = <<>>
    /\ number = 0
    /\ ran = {}
    /\ tokenize_ret = 0
    /\ postfix_ret = 0
    /\ eval_ret = Dbl(0)
    /\ log = <<>>
    /\ NoMenu

InitStack ==
    /\ StackIdle
    /\ op_stack = EmptyStack
    /\ val_stack = EmptyStack

Logged(fn, before, arg, ret) ==
    /\ pc = "stack"
    /\ Len(log) < MaxCalls
    /\ log' = Append(log, [fn |-> fn, before |-> before, arg |-> arg, ret |-> ret])
    /\ UNCHANGED <<pc, expression, iterator, char_index, total_tokens, tokens,
                   output, number, ran, tokenize_ret, postfix_ret, eval_ret>>
    /\ UNCHANGED menu_vars

PushOp ==
    \E value \in StackTokens :
        /\ Logged("Stack_pushOp", op_stack, value, Stack_pushOp(op_stack, value).ret)
        /\ op_stack' = Stack_pushOp(op_stack, value).stack
        /\ UNCHANGED val_stack

PopOp ==
    /\ Logged("Stack_popOp", op_stack, NULL, Stack_popOp(op_stack).ret)
    /\ op_stack' = Stack_popOp(op_stack).stack
    /\ UNCHANGED val_stack

PeekOp ==
    /\ Logged("Stack_peekOp", op_stack, NULL, Stack_peekOp(op_stack))
    /\ UNCHANGED <<op_stack, val_stack>>

IsEmpty ==
    /\ Logged("Stack_isEmpty", op_stack, NULL, Stack_isEmpty(op_stack))
    /\ UNCHANGED <<op_stack, val_stack>>

PushVal ==
    \E value \in StackValues :
        /\ Logged("Stack_pushVal", val_stack, value, Stack_pushVal(val_stack, value).ret)
        /\ val_stack' = Stack_pushVal(val_stack, value).stack
        /\ UNCHANGED op_stack

PopVal ==
    /\ Logged("Stack_popVal", val_stack, NULL, Stack_popVal(val_stack).ret)
    /\ val_stack' = Stack_popVal(val_stack).stack
    /\ UNCHANGED op_stack

IsEmptyVal ==
    /\ Logged("Stack_isEmptyVal", val_stack, NULL, Stack_isEmptyVal(val_stack))
    /\ UNCHANGED <<op_stack, val_stack>>

NextStack ==
    \/ PushOp
    \/ PopOp
    \/ PeekOp
    \/ IsEmpty
    \/ PushVal
    \/ PopVal
    \/ IsEmptyVal

SpecStack == InitStack /\ [][NextStack]_vars

(***************************************************************************)
(* The pipeline under weak fairness: the program is sequential and runs to  *)
(* the end of each function, so a step that can be taken is taken.          *)
(***************************************************************************)
SpecLive == Init /\ [][Next]_vars /\ WF_vars(Next)

(***************************************************************************)
(* The pipeline on expressions at the capacities: one run of digits, dots   *)
(* or letters about as long as a token buffer, and about as many tokens as  *)
(* the token array holds.                                                   *)
(***************************************************************************)
\* how far the long expressions go below and above a capacity
MaxOver == 1

\* unit repeated n times
Repeat(unit, n) ==
    [i \in 1..(n * Len(unit)) |-> unit[((i - 1) % Len(unit)) + 1]]

ExprRun ==
    { Repeat(<<c>>, n) \o tail :
        c \in {"1", ".", "a"},
        n \in (MAX_TOKEN_LENGTH - 1 - MaxOver)..(MAX_TOKEN_LENGTH - 1 + MaxOver),
        tail \in { <<>>, <<"+", "5">>, <<" ", "5">> } }

ExprMany ==
    { Repeat(unit, n) :
        unit \in { <<"+">>, <<"3", " ">>, <<"a", " ">> },
        n \in (MAX_NUM_TOKENS - MaxOver)..(MAX_NUM_TOKENS + MaxOver) }

ExprLong == ExprRun \cup ExprMany

InitLong ==
    /\ pc = "tokenize"
    /\ expression \in ExprLong
    /\ iterator = 0
    /\ char_index = 0
    /\ total_tokens = 0
    /\ tokens = <<>>
    /\ output = <<>>
    /\ number = 0
    /\ op_stack = EmptyStack
    /\ val_stack = EmptyStack
    /\ ran = {}
    /\ tokenize_ret = 0
    /\ postfix_ret = 0
    /\ eval_ret = Dbl(0)
    /\ log = <<>>
    /\ NoMenu

SpecLong == InitLong /\ [][Next]_vars

(***************************************************************************)
(* RPNCalculator_evaluatePostfix called on its own, with a postfix array    *)
(* the caller filled and the count of its tokens.                           *)
(***************************************************************************)
\* longest postfix sequence handed to the evaluator
MaxPostfix == 4

PostfixTokens ==
    { <<"3">>, <<"0">>, <<"2", "2">>, <<"2", ".", "5">>,
      <<"+">>, <<"-">>, <<"*">>, <<"/">>, <<"^">>, <<"!">>,
      <<"s", "q", "r", "t">>, <<"x">> }

PostfixInputs == UNION { [1..k -> PostfixTokens] : k \in 0..MaxPostfix }

InitEval ==
    /\ pc = "evaluatePostfix"
    /\ expression = <<>>
    /\ iterator = 0
    /\ char_index = 0
    /\ total_tokens = 0
    /\ tokens = <<>>
    /\ output \in PostfixInputs
    /\ number = Len(output)
    /\ op_stack = EmptyStack
    /\ val_stack = EmptyStack
    /\ ran = {}
    /\ tokenize_ret = 0
    /\ postfix_ret = 0
    /\ eval_ret = Dbl(0)
    /\ log = <<>>
    /\ NoMenu

NextEval ==
    \/ EvaluateStep
    \/ EvaluateReturn

SpecEval == InitEval /\ [][NextEval]_vars

(***************************************************************************)
(* RPNCalculator_applyOperation called on its own; each call is logged with *)
(* its arguments and its return value.                                      *)
(***************************************************************************)
\* number of calls in a run of the applier
MaxApply == 1

ApplyTokens == { operators_str[i] : i \in 1..OP_COUNT } \cup { <<"x">> }

ApplyValues == { Dbl(0), Dbl(2), Dbl(5), Dbl(-EINVAL), Frac(5, 2) }

InitApply ==
    /\ pc = "apply"
    /\ expression = <<>>
    /\ iterator = 0
    /\ char_index = 0
    /\ total_tokens = 0
    /\ tokens = <<>>
    /\ output = <<>>
    /\ number = 0
    /\ op_stack = EmptyStack
    /\ val_stack = EmptyStack
    /\ ran = {}
    /\ tokenize_ret = 0
    /\ postfix_ret = 0
    /\ eval_ret = Dbl(0)
    /\ log = <<>>
    /\ NoMenu

ApplyOperation ==
    \E operation \in ApplyTokens, num_a \in ApplyValues, num_b \in ApplyValues :
        /\ pc = "apply"
        /\ Len(log) < MaxApply
        /\ log' = Append(log, [fn |-> "RPNCalculator_applyOperation",
                               before |-> EmptyStack,
                               arg |-> <<operation, num_a, num_b>>,
                               ret |-> RPNCalculator_applyOperation(
                                           operation, num_a, num_b)])
        /\ UNCHANGED <<pc, expression, iterator, char_index, total_tokens,
                       tokens, output, number, op_stack, val_stack, ran,
                       tokenize_ret, postfix_ret, eval_ret>>
        /\ UNCHANGED menu_vars

NextApply == ApplyOperation

SpecApply == InitApply /\ [][NextApply]_vars

(***************************************************************************)
(* RPNCalculator_evaluatePostfix called again and again by one caller.  The *)
(* value stack is an automatic variable: at each call it occupies a frame   *)
(* that holds whatever was there before (at the first call any well-formed  *)
(* struct, later what the previous call left), and the function initialises *)
(* it before use.  Each finished call is logged with its postfix array and  *)
(* its return value when the caller goes on to the next one.                *)
(***************************************************************************)
\* number of further calls after the first
MaxRuns == 2

\* longest postfix sequence of a repeated call
MaxAgain == 2

AgainTokens == { <<"3">>, <<"+">> }

AgainInputs == UNION { [1..k -> AgainTokens] : k \in 0..MaxAgain }

Frames ==
    { StackOf(d) : d \in UNION { [1..k -> StackValues] : k \in 0..MaxDepth } }

\* EvaluateStart that uses the frame as it finds it
EvaluateStart_Keep(frame) == frame

\* stack_val_t val_stack = {0u}; val_stack.top = EMPTY_TOP;
EvaluateStart(frame) == EmptyStack

InitAgain ==
    /\ pc = "evaluatePostfix"
    /\ expression = <<>>
    /\ iterator = 0
    /\ char_index = 0
    /\ total_tokens = 0
    /\ tokens = <<>>
    /\ output \in AgainInputs
    /\ number = Len(output)
    /\ op_stack = EmptyStack
    /\ val_stack \in { EvaluateStart(frame) : frame \in Frames }
    /\ ran = {}
    /\ tokenize_ret = 0
    /\ postfix_ret = 0
    /\ eval_ret = Dbl(0)
    /\ log = <<>>
    /\ NoMenu

EvalRuns ==
    { i \in 1..Len(log) : log[i].fn = "RPNCalculator_evaluatePostfix" }

EvaluateAgain ==
    /\ pc = "done"
    /\ Cardinality(EvalRuns) < MaxRuns
    /\ \E next \in AgainInputs :
         /\ output' = next
         /\ number' = Len(next)
    /\ log' = Append(log, Call("RPNCalculator_evaluatePostfix", EmptyStack,
                               output, eval_ret))
    /\ pc' = "evaluatePostfix"
    /\ iterator' = 0
    /\ val_stack' = EvaluateStart(val_stack)
    /\ eval_ret' = Dbl(0)
    /\ ran' = {}
    /\ UNCHANGED <<expression, char_index, total_tokens, tokens, op_stack,
                   tokenize_ret, postfix_ret>>
    /\ UNCHANGED menu_vars

NextAgain ==
    \/ EvaluateStep
    \/ EvaluateReturn
    \/ EvaluateAgain

SpecAgain == InitAgain /\ [][NextAgain]_vars

(***************************************************************************)
(* The classifiers RPNCalculator_checkPrecedence and                        *)
(* RPNCalculator_isRightAssociative called on their own; each call is       *)
(* logged with its token and its return value.                              *)
(***************************************************************************)
\* number of calls in a run of the classifiers
MaxClassify == 2

ClassifyTokens ==
    { operators_str[i] : i \in 1..OP_COUNT } \cup FunctionNames
        \cup { <<"(">>, <<"x">>, <<"3">> }

InitClassify ==
    /\ pc = "classify"
    /\ expression = <<>>
    /\ iterator = 0
    /\ char_index = 0
    /\ total_tokens = 0
    /\ tokens = <<>>
    /\ output = <<>>
    /\ number = 0
    /\ op_stack = EmptyStack
    /\ val_stack = EmptyStack
    /\ ran = {}
    /\ tokenize_ret = 0
    /\ postfix_ret = 0
    /\ eval_ret = Dbl(0)
    /\ log = <<>>
    /\ NoMenu

Classified(fn, token, ret) ==
    /\ pc = "classify"
    /\ Len(log) < MaxClassify
    /\ log' = Append(log, Call(fn, EmptyStack, token, ret))
    /\ UNCHANGED <<pc, expression, iterator, char_index, total_tokens, tokens,
                   output, number, op_stack, val_stack, ran, tokenize_ret,
                   postfix_ret, eval_ret>>
    /\ UNCHANGED menu_vars

CheckPrecedence ==
    \E token \in ClassifyTokens :
        Classified("RPNCalculator_checkPrecedence", token,
                   RPNCalculator_checkPrecedence(token))

IsRightAssociative ==
    \E token \in ClassifyTokens :
        Classified("RPNCalculator_isRightAssociative", token,
                   RPNCalculator_isRightAssociative(token))

NextClassify ==
    \/ CheckPrecedence
    \/ IsRightAssociative

SpecClassify == InitClassify /\ [][NextClassify]_vars

(***************************************************************************)
(* state_machine.c: the menu program.  main builds a list of two machines, *)
(* takes the second and runs its loop on it; the handlers read the         *)
(* standard input, here a finite sequence of characters followed by the    *)
(* end of file.                                                             *)
(***************************************************************************)
IDLE_STATE == 0

GET_FROM_USER == 1

MAKE_OPERATION == 2

RETURN_FOR_USER == 3

ASK_FOR_CONTINUE == 4

PREVIOUS_STATE == 0

CURRENT_STATE == 1

EXIT_PROGRAM == 0

CONTINUE_PROGRAM == 1

EOF == -1

\* <stdio.h>.  Each reader gives its return value, the value it stored and
\* the input it left unread.
RECURSIVE SkipSpaces(_)
SkipSpaces(in) ==
    IF in # <<>> /\ isspace(Head(in)) THEN SkipSpaces(Tail(in)) ELSE in

\* scanf("%i", &value) on decimal input: leading whitespace is skipped, a
\* sign is read, then the digits; a character that cannot go on the number
\* stays unread, a sign that no digit follows is lost.  (A leading 0 would
\* select base 8 or 16; the inputs hold no 0.)
scanf_i(in) ==
    LET s      == SkipSpaces(in)
        signed == s # <<>> /\ Head(s) \in {"+", "-"}
        body   == IF signed THEN Tail(s) ELSE s
        run    == DigitRun(body, 1)
        value  == IF signed /\ Head(s) = "-" THEN -DigitsValue(run)
                  ELSE DigitsValue(run)
    IN  IF s = <<>> THEN [ret |-> EOF, value |-> 0, rest |-> s]
        ELSE IF run = <<>> THEN [ret |-> 0, value |-> 0, rest |-> body]
        ELSE [ret |-> 1, value |-> value,
              rest |-> SubSeq(body, Len(run) + 1, Len(body))]

\* scanf("%c", &value)
scanf_c(in) ==
    IF in = <<>> THEN [ret |-> EOF, value |-> NUL, rest |-> in]
    ELSE [ret |-> 1, value |-> Head(in), rest |-> Tail(in)]

\* while(getchar() != '\n'); : it ends behind the first newline; at the end
\* of the file getchar returns EOF again and again and the loop never ends
RECURSIVE DiscardLine(_)
DiscardLine(in) ==
    IF in = <<>> THEN [hung |-> TRUE, rest |-> in]
    ELSE IF Head(in) = "\n" THEN [hung |-> FALSE, rest |-> Tail(in)]
    ELSE DiscardLine(Tail(in))

LowerCase == <<"a", "b", "c", "d", "e", "f", "g", "h", "i", "j", "k", "l", "m",
               "n", "o", "p", "q", "r", "s", "t", "u", "v", "w", "x", "y", "z">>

UpperCase == <<"A", "B", "C", "D", "E", "F", "G", "H", "I", "J", "K", "L", "M",
               "N", "O", "P", "Q", "R", "S", "T", "U", "V", "W", "X", "Y", "Z">>

toupper(c) ==
    IF \E i \in 1..26 : LowerCase[i] = c
    THEN UpperCase[CHOOSE i \in 1..26 : LowerCase[i] = c]
    ELSE c

\* what a handler hands back: the machine, the unread input, its return
\* value, and whether it never returns
Handled(head, in, ret) == [head |-> head, stdin |-> in, ret |-> ret, hung |-> FALSE]

Hung(head, in) == [head |-> head, stdin |-> in, ret |-> 0, hung |-> TRUE]

\* The handlers are reached with a machine only (StateMachine_processState
\* returns before the call if head is NULL, and ASK_FOR_CONTINUE is the
\* state of a machine), so their head == NULL branch is not taken.
StateMachine_processIdle(head, in) == Handled(head, in, FUNCTION_SUCCESS)

\* StateMachine_processUserInput that reads into the machine's data itself
StateMachine_processUserInput_InPlace(head, in) ==
    LET first  == scanf_i(in)
        second == scanf_i(first.rest)
        line   == DiscardLine(second.rest)
        op     == scanf_c(line.rest)
        one    == [head EXCEPT !.data.first_number = first.value]
        two    == [one EXCEPT !.data.second_number = second.value]
        three  == [two EXCEPT !.data.operation = op.value]
    IN  IF first.ret # 1 THEN Handled(head, first.rest, -EINVAL)
        ELSE IF second.ret # 1 THEN Handled(one, second.rest, -EINVAL)
        ELSE IF line.hung THEN Hung(two, line.rest)
        ELSE IF op.ret # 1 THEN Handled(two, op.rest, -EINVAL)
        ELSE Handled(three, op.rest, FUNCTION_SUCCESS)

\* the three reads go to the local user_input, a copy of head->data, which
\* is copied back after the third
StateMachine_processUserInput(head, in) ==
    LET first      == scanf_i(in)
        second     == scanf_i(first.rest)
        line       == DiscardLine(second.rest)
        op         == scanf_c(line.rest)
        user_input == [head.data EXCEPT !.first_number = first.value,
                                        !.second_number = second.value,
                                        !.operation = op.value]
    IN  IF first.ret # 1 THEN Handled(head, first.rest, -EINVAL)
        ELSE IF second.ret # 1 THEN Handled(head, second.rest, -EINVAL)
        ELSE IF line.hung THEN Hung(head, line.rest)
        ELSE IF op.ret # 1 THEN Handled(head, op.rest, -EINVAL)
        ELSE Handled([head EXCEPT !.data = user_input], op.rest,
                     FUNCTION_SUCCESS)

StateMachine_processDoOperation(head, in) ==
    LET user_input == head.data
        result ==
            IF user_input.operation = "+"
            THEN user_input.first_number + user_input.second_number
            ELSE IF user_input.operation = "-"
            THEN user_input.first_number - user_input.second_number
            ELSE 0
    IN  Handled([head EXCEPT !.data.result = result], in, FUNCTION_SUCCESS)

\* prints the result; the data are copied out and back unchanged
StateMachine_processUserOutput(head, in) == Handled(head, in, FUNCTION_SUCCESS)

StateMachine_processAskForContinue(head, in) ==
    LET line   == DiscardLine(in)
        read   == scanf_c(line.rest)
        option == toupper(read.value)
    IN  IF line.hung THEN Hung(head, line.rest)
        ELSE IF read.ret # 1 THEN Handled(head, read.rest, -EINVAL)
        ELSE Handled(head, read.rest,
                     IF option = "S" THEN CONTINUE_PROGRAM
                     ELSE IF option = "N" THEN EXIT_PROGRAM
                     ELSE -EINVAL)

\* process_state[state](head)
process_state(st, head, in) ==
    IF st = IDLE_STATE THEN StateMachine_processIdle(head, in)
    ELSE IF st = GET_FROM_USER THEN StateMachine_processUserInput(head, in)
    ELSE IF st = MAKE_OPERATION THEN StateMachine_processDoOperation(head, in)
    ELSE IF st = RETURN_FOR_USER THEN StateMachine_processUserOutput(head, in)
    ELSE StateMachine_processAskForContinue(head, in)

StateMachine_setState(head, instant, st) ==
    IF head = NullMachine THEN head ELSE [head EXCEPT !.state[instant] = st]

StateMachine_getState(head, instant) ==
    IF head = NullMachine THEN 0 ELSE head.state[instant]

\* StateMachine_processState that hands on what the handler returned
StateMachine_processState_Returning(head, st, in) ==
    IF head = NullMachine THEN Handled(head, in, -ENOMEM)
    ELSE process_state(st, head, in)

\* the handler is called and its return value dropped: ret stays 0
StateMachine_processState(head, st, in) ==
    IF head = NullMachine THEN Handled(head, in, -ENOMEM)
    ELSE [process_state(st, head, in) EXCEPT !.ret = 0]

\* number of input lines
MaxLines == 4

\* the lines a user types: two numbers, a number and a word, an operation,
\* the answers s and n, a word
InputLines ==
    { <<"1", " ", "2", "\n">>, <<"1", " ", "x", "\n">>, <<"+", "\n">>,
      <<"s", "\n">>, <<"n", "\n">>, <<"x", "\n">> }

RECURSIVE InputsOf(_)
InputsOf(k) ==
    IF k = 0 THEN { <<>> }
    ELSE { in \o line : in \in InputsOf(k - 1), line \in InputLines }

Inputs == UNION { InputsOf(k) : k \in 0..MaxLines }

\* malloc does not initialise the machine's data: whatever the heap held
HeapData ==
    { [first_number |-> 0, second_number |-> 0, result |-> 0, operation |-> NUL],
      [first_number |-> 9, second_number |-> 8, result |-> 7, operation |-> "-"] }

\* a machine as StateMachine_listCreator leaves it
NewMachine(data) ==
    [state |-> [instant \in {PREVIOUS_STATE, CURRENT_STATE} |-> 0],
     data  |-> data]

RpnIdle ==
    /\ expression = <<>>
    /\ iterator = 0
    /\ char_index = 0
    /\ total_tokens = 0
    /\ tokens = <<>>
    /\ output = <<>>
    /\ number = 0
    /\ op_stack = EmptyStack
    /\ val_stack = EmptyStack
    /\ ran = {}
    /\ tokenize_ret = 0
    /\ postfix_ret = 0
    /\ eval_ret = Dbl(0)
    /\ log = <<>>

\* main up to its loop.  If both allocations succeed, current_machine is
\* the second machine.  If the first fails the list is NULL and so is
\* current_machine.  If only the second fails, StateMachine_listCreator
\* frees the first machine and returns it, and StateMachine_getMachine
\* reads the freed node: it still reads as the unlinked node it was
\* (current_machine is NULL) or the access ends the program.
InitMenu ==
    /\ RpnIdle
    /\ stdin \in Inputs
    /\ state = GET_FROM_USER
    /\ process_ret = 0
    /\ break_condition = FALSE
    /\ \/ /\ pc = "main"
          /\ current_machine \in
                { StateMachine_setState(NewMachine(data), CURRENT_STATE,
                                        GET_FROM_USER) : data \in HeapData }
       \/ /\ pc = "main"
          /\ current_machine = StateMachine_setState(NullMachine, CURRENT_STATE,
                                                     GET_FROM_USER)
       \/ /\ pc = "abort"
          /\ current_machine = NullMachine

\* the head of a pass of the loop: the state the switch selects
Selected(st) ==
    /\ pc = "main"
    /\ ~break_condition
    /\ StateMachine_getState(current_machine, CURRENT_STATE) = st

\* a handler that never returns: the program stays in its getchar loop
Stuck(st, r) ==
    /\ pc' = "getchar"
    /\ state' = st
    /\ stdin' = r.stdin
    /\ current_machine' = r.head
    /\ UNCHANGED <<process_ret, break_condition>>

\* the cases GET_FROM_USER, MAKE_OPERATION and RETURN_FOR_USER
Process(st, next) ==
    /\ LET r     == StateMachine_processState(current_machine, st, stdin)
           after == IF r.ret = FUNCTION_SUCCESS THEN next ELSE IDLE_STATE
       IN  IF r.hung THEN Stuck(st, r)
           ELSE /\ process_ret' = r.ret
                /\ state' = after
                /\ current_machine' =
                     StateMachine_setState(
                         StateMachine_setState(r.head, PREVIOUS_STATE, st),
                         CURRENT_STATE, after)
                /\ stdin' = r.stdin
                /\ UNCHANGED <<pc, break_condition>>
    /\ UNCHANGED rpn_vars

Idle ==
    /\ Selected(IDLE_STATE)
    /\ LET r == StateMachine_processState(current_machine, IDLE_STATE, stdin)
       IN  /\ process_ret' = r.ret
           /\ state' = IDLE_STATE
           /\ current_machine' = r.head
           /\ stdin' = r.stdin
    /\ UNCHANGED <<pc, break_condition>>
    /\ UNCHANGED rpn_vars

GetFromUser ==
    /\ Selected(GET_FROM_USER)
    /\ Process(GET_FROM_USER, MAKE_OPERATION)

MakeOperation ==
    /\ Selected(MAKE_OPERATION)
    /\ Process(MAKE_OPERATION, RETURN_FOR_USER)

ReturnForUser ==
    /\ Selected(RETURN_FOR_USER)
    /\ Process(RETURN_FOR_USER, ASK_FOR_CONTINUE)

AskForContinue ==
    /\ Selected(ASK_FOR_CONTINUE)
    /\ LET r     == StateMachine_processAskForContinue(current_machine, stdin)
           after == IF r.ret = CONTINUE_PROGRAM THEN GET_FROM_USER
                    ELSE IF r.ret = EXIT_PROGRAM THEN IDLE_STATE
                    ELSE ASK_FOR_CONTINUE
       IN  IF r.hung THEN Stuck(ASK_FOR_CONTINUE, r)
           ELSE /\ process_ret' = r.ret
                /\ break_condition' = (r.ret = EXIT_PROGRAM)
                /\ state' = after
                /\ current_machine' =
                     StateMachine_setState(
                         StateMachine_setState(r.head, PREVIOUS_STATE,
                                               ASK_FOR_CONTINUE),
                         CURRENT_STATE, after)
                /\ stdin' = r.stdin
                /\ UNCHANGED pc
    /\ UNCHANGED rpn_vars

\* the loop has ended: the list is destroyed and main returns 0
Exit ==
    /\ pc = "main"
    /\ break_condition
    /\ pc' = "exit"
    /\ current_machine' = NullMachine
    /\ UNCHANGED <<state, process_ret, break_condition, stdin>>
    /\ UNCHANGED rpn_vars

NextMenu ==
    \/ Idle
    \/ GetFromUser
    \/ MakeOperation
    \/ ReturnForUser
    \/ AskForContinue
    \/ Exit

\* the program is sequential: once break_condition is set the loop condition
\* is evaluated and main returns
SpecMenu == InitMenu /\ [][NextMenu]_vars /\ WF_vars(Exit)

(***************************************************************************)
(* Properties                                                               *)
(***************************************************************************)
\* reference semantics of the expressions, as the specification states them
Level(o) == IF o \in {"+", "-"} THEN 1 ELSE IF o \in {"*", "/"} THEN 2 ELSE 3

Apply(o, x, y) ==
    IF o = "+" THEN DAdd(x, y)
    ELSE IF o = "-" THEN DSub(x, y)
    ELSE IF o = "*" THEN DMul(x, y)
    ELSE IF o = "/" THEN DDiv(x, y)
    ELSE pow(x, y)

LitValue(a) == Dbl(DigitsValue(a))

RECURSIVE Factorial(_)
Factorial(n) == IF n <= 1 THEN 1 ELSE n * Factorial(n - 1)

Converted == "infixToPostfix" \in ran

Finished == pc = "done"

Evaluated == Finished /\ ran = {"tokenize", "infixToPostfix", "evaluatePostfix"}

\* C1: a well-formed infix expression over integer literals, + - * and
\* brackets evaluates through tokenize, infixToPostfix and evaluatePostfix
\* to its value under standard precedence and left-to-right grouping
\* ("3 + 4 * 2" gives 11, "(3+4)*2" gives 14), never to an error.
C1_PipelineValue ==
    Finished =>
        /\ \A a \in Lits, b \in Lits, c \in Lits, o1, o2 \in {"+", "-", "*"} :
             tokens = <<a, <<o1>>, b, <<o2>>, c>> =>
               /\ Evaluated
               /\ eval_ret = IF Level(o2) > Level(o1)
                             THEN Apply(o1, LitValue(a),
                                        Apply(o2, LitValue(b), LitValue(c)))
                             ELSE Apply(o2, Apply(o1, LitValue(a), LitValue(b)),
                                        LitValue(c))
        /\ \A a \in Lits, c \in Lits, o1, o2 \in {"+", "-", "*"} :
             tokens = << <<"(">>, a, <<o1>>, <<"4">>, <<")">>, <<o2>>, c>> =>
               /\ Evaluated
               /\ eval_ret = Apply(o2, Apply(o1, LitValue(a), Dbl(4)), LitValue(c))

\* C2: for number tokens a, b, c, infixToPostfix of a op1 b op2 c returns 5
\* with output a b c op2 op1 when op2 binds tighter than op1, and output
\* a b op1 c op2 when op1 binds tighter than op2.
C2_PrecedenceOrder ==
    \A a \in Lits, b \in Lits, c \in Lits, o1 \in BinOps, o2 \in BinOps :
        (Converted /\ tokens = <<a, <<o1>>, b, <<o2>>, c>>) =>
            /\ Level(o2) > Level(o1) =>
                   postfix_ret = 5 /\ output = <<a, b, c, <<o2>>, <<o1>>>>
            /\ Level(o1) > Level(o2) =>
                   postfix_ret = 5 /\ output = <<a, b, <<o1>>, c, <<o2>>>>

\* C3: exponentiation groups right to left: infixToPostfix of a ^ b ^ c
\* gives a b c ^ ^, and "2^3^2" evaluates to 512.
C3_PowerRightToLeft ==
    /\ \A a \in Lits, b \in Lits, c \in Lits :
         (Converted /\ tokens = <<a, <<"^">>, b, <<"^">>, c>>) =>
             output = <<a, b, c, <<"^">>, <<"^">>>>
    /\ (Finished /\ tokens = << <<"2">>, <<"^">>, <<"3">>, <<"^">>, <<"2">> >>) =>
           Evaluated /\ eval_ret = Dbl(512)

\* C4: operators of equal precedence among + - * / group left to right:
\* infixToPostfix of a op1 b op2 c gives a b op1 c op2, and "8 - 3 - 2"
\* evaluates to 3.
C4_EqualPrecedenceLeftToRight ==
    /\ \A a \in Lits, b \in Lits, c \in Lits, o1, o2 \in {"+", "-", "*", "/"} :
         (Converted /\ Level(o1) = Level(o2)
                    /\ tokens = <<a, <<o1>>, b, <<o2>>, c>>) =>
             output = <<a, b, <<o1>>, c, <<o2>>>>
    /\ (Finished /\ tokens = << <<"8">>, <<"-">>, <<"3">>, <<"-">>, <<"2">> >>) =>
           Evaluated /\ eval_ret = Dbl(3)

\* C5: for a bracketed sub-expression followed by an operator, infixToPostfix
\* emits the operator inside the brackets before the operator after the
\* closing bracket, and emits no bracket: ( a op1 4 ) op2 c gives
\* a 4 op1 c op2.
C5_BracketGrouping ==
    \A a \in Lits, c \in Lits, o1 \in BinOps, o2 \in BinOps,
       br \in { <<"(", ")">>, <<"[", "]">>, <<"{", "}">> } :
        (Converted
           /\ tokens = << <<br[1]>>, a, <<o1>>, <<"4">>, <<br[2]>>, <<o2>>, c>>) =>
            /\ postfix_ret = 5
            /\ output = <<a, <<"4">>, <<o1>>, c, <<o2>>>>

\* C6: for every function name f of the table, infixToPostfix of f ( E )
\* gives the postfix of E followed by f, and evaluatePostfix then applies f
\* to the value of E ("sqrt(16)" gives 16 sqrt and 4).
C6_FunctionApplication ==
    \A f \in FunctionNames :
        /\ \A a \in Lits \cup { <<"1", "6">> } :
             tokens = <<f, <<"(">>, a, <<")">>>> =>
               /\ Converted => postfix_ret = 2 /\ output = <<a, f>>
               /\ Finished =>
                    /\ Evaluated
                    /\ eval_ret = RPNCalculator_applyFunction(f, LitValue(a))
        /\ \A a \in Lits, o \in BinOps :
             tokens = <<f, <<"(">>, a, <<o>>, <<"2">>, <<")">>>> =>
               /\ Converted => postfix_ret = 4 /\ output = <<a, <<"2">>, <<o>>, f>>
               /\ Finished =>
                    /\ Evaluated
                    /\ eval_ret = RPNCalculator_applyFunction(
                                      f, Apply(o, LitValue(a), Dbl(2)))

\* C7: for every n in 0..MaxFact, "n!" converts to the postfix n ! and
\* evaluates to n!, where 0! = 1! = 1 and n! = n * (n-1)! ("5!" gives 120).
C7_Factorial ==
    \A n \in 0..MaxFact :
        tokens = <<NatToken(n), <<"!">>>> =>
            /\ Converted => postfix_ret = 2 /\ output = <<NatToken(n), <<"!">>>>
            /\ Finished => Evaluated /\ eval_ret = Dbl(Factorial(n))

\* the last call of the stack interface and the stack it left behind
Called == Len(log) > 0

Last == log[Len(log)]

OpCalls == {"Stack_pushOp", "Stack_popOp", "Stack_peekOp", "Stack_isEmpty"}

After(call) == IF call.fn \in OpCalls THEN op_stack ELSE val_stack

Count(stack) == stack.top + 1

Contents(stack) == SubSeq(stack.data, 1, stack.top + 1)

\* C8: a push on a stack that holds n elements, 0 <= n < 1000 (the empty
\* stack with top = -1 included), returns 0, leaves n + 1 elements and the
\* pushed value on top; it fails with the capacity error and leaves the
\* stack unchanged if and only if the stack holds 1000 elements.
C8_PushContract ==
    (Called /\ Last.fn \in {"Stack_pushOp", "Stack_pushVal"}) =>
        LET before == Last.before
            after  == After(Last)
        IN  /\ Count(before) < MAX_STACK_SIZE =>
                  /\ Last.ret = FUNCTION_SUCCESS
                  /\ Count(after) = Count(before) + 1
                  /\ Contents(after) = Append(Contents(before), Last.arg)
            /\ (Last.ret = -EINVAL /\ after = before)
                  <=> (Count(before) = MAX_STACK_SIZE)

\* r is told apart from every value that a pop or peek of a non-empty stack
\* returns
AbsentOp(r) ==
    \A s \in OpStackInputs : s.top # EMPTY_TOP => Stack_popOp(s).ret # r

AbsentVal(r) ==
    \A s \in ValStackInputs : s.top # EMPTY_TOP => Stack_popVal(s).ret # r

\* what pop and peek do on a non-empty stack
TakesTop(call) ==
    LET before == call.before
        after  == After(call)
    IN  /\ call.ret = before.data[before.top + 1]
        /\ IF call.fn = "Stack_peekOp"
           THEN after = before
           ELSE /\ Count(after) = Count(before) - 1
                /\ Contents(after) = SubSeq(Contents(before), 1, before.top)

\* C9: pop and peek on an empty stack return an absent result,
\* told apart from every value a non-empty stack can return, and leave the
\* stack empty; on a non-empty stack pop removes and returns the top element
\* and peek returns it without changing the stack.
C9_UnderflowAbsent ==
    (Called /\ Last.fn \in {"Stack_popOp", "Stack_peekOp", "Stack_popVal"}) =>
        IF Last.before.top = EMPTY_TOP
        THEN /\ After(Last) = Last.before
             /\ IF Last.fn = "Stack_popVal" THEN AbsentVal(Last.ret)
                                            ELSE AbsentOp(Last.ret)
        ELSE TakesTop(Last)

\* C10: LIFO discipline.  On a stack that starts empty, k pushes of
\* v1..vk (k <= 1000, so within capacity) followed by k pops return
\* vk..v1 and leave the stack empty; and a successful push(v) directly
\* followed by a pop returns v and restores the previous contents.
C10_LIFO ==
    /\ \A k \in 1..(MaxCalls \div 2) :
         \A push \in {"Stack_pushOp", "Stack_pushVal"} :
           LET pop == IF push = "Stack_pushOp" THEN "Stack_popOp" ELSE "Stack_popVal"
           IN  (/\ Len(log) = 2 * k
                /\ log[1].before = EmptyStack
                /\ \A i \in 1..k : log[i].fn = push /\ log[k + i].fn = pop) =>
                   /\ \A i \in 1..k : log[2 * k + 1 - i].ret = log[i].arg
                   /\ After(Last).top = EMPTY_TOP
    /\ \A j \in 2..Len(log) :
         (/\ log[j - 1].fn \in {"Stack_pushOp", "Stack_pushVal"}
          /\ log[j - 1].ret = FUNCTION_SUCCESS
          /\ log[j].fn = (IF log[j - 1].fn = "Stack_pushOp" THEN "Stack_popOp"
                          ELSE "Stack_popVal")) =>
             /\ log[j].ret = log[j - 1].arg
             /\ Contents([log[j].before EXCEPT !.top = @ - 1])
                  = Contents(log[j - 1].before)

\* an opening bracket with no closing bracket after it
Unclosed(toks) ==
    \E i \in 1..Len(toks) :
        /\ toks[i] \in OpenBrackets
        /\ \A j \in (i + 1)..Len(toks) : toks[j] \notin CloseBrackets

\* C11: for every token sequence that holds an opening bracket with no
\* closing bracket after it ("(3+4"), infixToPostfix returns the
\* mismatched-brackets error, never a token count.
C11_UnclosedBracket ==
    (Converted /\ Unclosed(tokens)) => postfix_ret = -EINVAL

\* tokens[i] (0-based) is a closing bracket and no bracket comes before it
UnopenedAt(toks, i) ==
    /\ toks[i + 1] \in CloseBrackets
    /\ \A j \in 1..i : toks[j] \notin OpenBrackets \cup CloseBrackets

\* C12: when infixToPostfix meets a closing bracket while the operator stack
\* holds no opening bracket ("3+4)"), it returns the mismatched-brackets
\* error at that token, without processing the tokens after it.
C12_UnmatchedClose ==
    \A i \in 0..(Len(tokens) - 1) :
        (Converted /\ UnopenedAt(tokens, i)) =>
            /\ postfix_ret = -EINVAL
            /\ iterator = i

EvalReturned == "evaluatePostfix" \in ran

BinaryTokens == { operators_str[i] : i \in 1..(OP_COUNT - 1) }

AllNumbers(out) == \A i \in 1..Len(out) : IsNumberToken(out[i])

ApplyCalls ==
    { i \in 1..Len(log) : log[i].fn = "RPNCalculator_applyOperation" }

Recognised == Spaces \cup Digits \cup {"."} \cup Letters \cup OperatorChars

HasUnrecognised(expr) == \E i \in 1..Len(expr) : expr[i] \notin Recognised

\* 0-based position of the first character that is not recognised
FirstUnrecognised(expr) ==
    (CHOOSE i \in 1..Len(expr) :
        /\ expr[i] \notin Recognised
        /\ \A j \in 1..(i - 1) : expr[j] \in Recognised) - 1

Tokenized == "tokenize" \in ran

\* C17: if the expression holds a character that is not whitespace, a digit,
\* ".", a letter or one of + - * / ^ ! ( ) [ ] { }, tokenize returns an error
\* and no token count, whatever tokens come before that character; it never
\* reads past the first such character and no later stage runs.
C17_UnrecognisedCharacter ==
    (Tokenized /\ HasUnrecognised(expression)) =>
        /\ tokenize_ret = -EINVAL
        /\ iterator <= FirstUnrecognised(expression)
        /\ ran = {"tokenize"}
        /\ pc = "done"

C17_Witness ==
    /\ ran = {"tokenize"}
    /\ tokenize_ret = -EINVAL
    /\ Len(tokens) >= 1
    /\ iterator = FirstUnrecognised(expression)

\* the expression begins with more than MAX_TOKEN_LENGTH - 1 characters of
\* the class
StartsWithLongRun(expr, class) ==
    /\ Len(expr) >= MAX_TOKEN_LENGTH
    /\ \A j \in 1..MAX_TOKEN_LENGTH : expr[j] \in class

\* C18: no token is longer than 63 characters, and an expression whose run
\* of digits and dots, or of letters, is longer than that is no error: the
\* token holds the first 63 characters of the run and tokenize returns a
\* count.
C18_TokenCapacity ==
    /\ \A i \in 1..Len(tokens) : Len(tokens[i]) <= MAX_TOKEN_LENGTH - 1
    /\ \A class \in {NumberChars, Letters} :
         (Tokenized /\ StartsWithLongRun(expression, class)) =>
             /\ tokenize_ret >= 0
             /\ tokens[1] = SubSeq(expression, 1, MAX_TOKEN_LENGTH - 1)

\* the expressions of ExprMany and the number of tokens each is made of
IsMany(expr) == Len(expr) >= MAX_NUM_TOKENS - MaxOver

ManyCount(expr) == IF expr[1] = "+" THEN Len(expr) ELSE Len(expr) \div 2

\* C19: tokenize never writes a token at an index >= 1000; an expression of
\* more than 1000 tokens gives the capacity error, and an expression of at
\* most 1000 tokens returns exactly the number of tokens written.
C19_TokenCountBound ==
    /\ Len(tokens) <= MAX_NUM_TOKENS
    /\ (Tokenized /\ tokenize_ret >= 0) => tokenize_ret = Len(tokens)
    /\ (Tokenized /\ IsMany(expression)) =>
           IF ManyCount(expression) > MAX_NUM_TOKENS
           THEN tokenize_ret = -EINVAL
           ELSE tokenize_ret = ManyCount(expression)

C19_Witness ==
    /\ Tokenized
    /\ tokenize_ret = -EINVAL
    /\ Len(tokens) = MAX_NUM_TOKENS
    /\ ManyCount(expression) = MAX_NUM_TOKENS + 1

\* no NULL returned by Stack_popOp was copied into the postfix array
NoNullCopied == \A i \in 1..Len(output) : output[i] # NULL

\* the pipeline ended in the error return of one of its functions, or in the
\* double that evaluatePostfix returned
EndedInReturn ==
    \/ ran = {"tokenize"} /\ tokenize_ret < 0
    \/ ran = {"tokenize", "infixToPostfix"} /\ postfix_ret < 0
    \/ Evaluated

\* C20: for every expression, tokenize, infixToPostfix and evaluatePostfix
\* each terminate: the pipeline reaches its end, and it ends in an error
\* return or a numeric result, with no NULL stack result ever dereferenced.
C20_Termination ==
    /\ <>Finished
    /\ [](NoNullCopied /\ (Finished => EndedInReturn))

C20_Witness ==
    /\ Evaluated
    /\ Len(tokens) >= 3
    /\ Len(output) >= 1

\* C21: two calls of evaluatePostfix on the same postfix sequence return the
\* same outcome, the same value or the same error, whichever calls were made
\* before and between them: nothing survives from one call to the next.
C21_Determinism ==
    /\ \A i \in EvalRuns, j \in EvalRuns :
         log[i].arg = log[j].arg => log[i].ret = log[j].ret
    /\ Finished =>
         \A i \in EvalRuns : log[i].arg = output => log[i].ret = eval_ret

C21_Witness ==
    /\ Finished
    /\ \E i \in EvalRuns, j \in EvalRuns :
         /\ i < j
         /\ log[i].arg = output
         /\ log[i].ret = eval_ret
         /\ log[j].arg # output

\* evaluation of a postfix sequence as the specification states it, on a
\* stack st of values: "value" with the result, "error", or "inexact" where
\* a value leaves the fractions of the model
RefError == [kind |-> "error", value |-> Dbl(0)]

RefInexact == [kind |-> "inexact", value |-> Dbl(0)]

RECURSIVE RefRun(_, _)
RefRun(seq, st) ==
    LET t    == Head(seq)
        n    == Len(st)
        b    == st[n]
        a    == st[n - 1]
        bin  == Apply(t[1], a, b)
        fn   == RPNCalculator_applyFunction(t, b)
        on(k, v) == RefRun(Tail(seq), Append(SubSeq(st, 1, n - k), v))
    IN  IF seq = <<>>
        THEN IF n = 1 THEN [kind |-> "value", value |-> st[1]] ELSE RefError
        ELSE IF IsNumberToken(t) THEN on(0, atof(t))
        ELSE IF t = <<"!">>
        THEN IF n < 1 \/ b.n < 0 \/ b.d # 1 THEN RefError
             ELSE IF b.n > 12 THEN RefInexact
             ELSE on(1, Dbl(Factorial(b.n)))
        ELSE IF t \in BinaryTokens
        THEN IF n < 2 \/ (t = <<"/">> /\ b = Dbl(0)) THEN RefError
             ELSE IF IsFrac(bin) THEN on(2, bin) ELSE RefInexact
        ELSE IF t \in FunctionNames
        THEN IF n < 1 THEN RefError
             ELSE IF IsFrac(fn) THEN on(1, fn) ELSE RefInexact
        ELSE RefError

\* the values evaluatePostfix returns, or is documented to return, for an
\* error
NAN == Sym("nan", 0, 0)

ErrorReturns == { Dbl(-EINVAL), Dbl(-ENOMEM), NAN }

\* C22: a caller of evaluatePostfix can tell success from failure by the
\* returned value: a sequence that evaluates to a value returns none of the
\* error values -EINVAL, -ENOMEM and NAN, and a sequence that is in error
\* returns one of them.
C22_UnambiguousSuccess ==
    EvalReturned =>
        /\ RefRun(output, <<>>).kind = "value" => eval_ret \notin ErrorReturns
        /\ RefRun(output, <<>>).kind = "error" => eval_ret \in ErrorReturns

\* a call of the stack interface that failed: a push that returned an error,
\* a pop or a peek of an empty stack
FailedCall(call) ==
    \/ call.fn \in {"Stack_pushOp", "Stack_pushVal"} /\ call.ret # FUNCTION_SUCCESS
    \/ call.fn \in {"Stack_popOp", "Stack_peekOp", "Stack_popVal"}
          /\ call.before.top = EMPTY_TOP

FailedOpCalls == { i \in 1..Len(log) : log[i].fn \in OpCalls /\ FailedCall(log[i]) }

FailedValCalls ==
    { i \in 1..Len(log) :
        log[i].fn \in {"Stack_pushVal", "Stack_popVal"} /\ FailedCall(log[i]) }

\* C23: whenever a stack call made by infixToPostfix or evaluatePostfix
\* fails (a push that returns an error, a pop or peek of an empty stack),
\* that call of infixToPostfix or evaluatePostfix returns an error; no failed
\* push is ignored and the conversion never goes on after one.
C23_ErrorsSurfaced ==
    /\ pc = "infixToPostfix" => FailedOpCalls = {}
    /\ (Converted /\ FailedOpCalls # {}) => postfix_ret < 0
    /\ (EvalReturned /\ FailedValCalls # {}) => eval_ret = Dbl(-EINVAL)

PrecCalls ==
    { i \in 1..Len(log) : log[i].fn = "RPNCalculator_checkPrecedence" }

OperatorTokens == { operators_str[i] : i \in 1..OP_COUNT }

\* the tier of an operator as the specification states it: the larger, the
\* tighter the operator binds
Tier(token) == IF token = <<"!">> THEN 4 ELSE Level(token[1])

\* C24: checkPrecedence orders the operators strictly as "!" above "^"
\* above "*" and "/" above "+" and "-" (the tighter an operator binds, the
\* smaller its level, PRECEDENCE_1 being the highest), with "*" and "/" on one
\* level and "+" and "-" on one level, and returns the not-recognized error
\* for a token that is neither an operator nor a function name.
C24_PrecedenceTable ==
    /\ \A i \in PrecCalls, j \in PrecCalls :
         (log[i].arg \in OperatorTokens /\ log[j].arg \in OperatorTokens) =>
             /\ log[i].ret >= 0
             /\ Tier(log[i].arg) > Tier(log[j].arg) => log[i].ret < log[j].ret
             /\ Tier(log[i].arg) = Tier(log[j].arg) => log[i].ret = log[j].ret
    /\ \A i \in PrecCalls :
         log[i].arg \notin OperatorTokens \cup FunctionNames =>
             log[i].ret = -EINVAL

AssocCalls ==
    { i \in 1..Len(log) : log[i].fn = "RPNCalculator_isRightAssociative" }

\* C26: isRightAssociative returns RIGHT_ASSOCIATIVE exactly for "^" and
\* "!", LEFT_ASSOCIATIVE for "+", "-", "*" and "/", and the not-recognized
\* error -EINVAL for every token that is not an operator.
C26_Associativity ==
    \A i \in AssocCalls :
        /\ log[i].ret = RIGHT_ASSOCIATIVE <=> log[i].arg \in { <<"^">>, <<"!">> }
        /\ log[i].arg \in { <<"+">>, <<"-">>, <<"*">>, <<"/">> } =>
               log[i].ret = LEFT_ASSOCIATIVE
        /\ log[i].arg \notin OperatorTokens => log[i].ret = -EINVAL

\* the number tokens handed to the evaluator
PostfixNumbers == { t \in PostfixTokens : IsNumberToken(t) }

\* C27: for a binary operator the evaluator computes a op b where b is the
\* value pushed last: the postfix x y - evaluates to x - y, and x y / to
\* x / y for y # 0, for all number tokens x and y.
C27_OperandOrder ==
    \A x \in PostfixNumbers, y \in PostfixNumbers :
        /\ (EvalReturned /\ output = <<x, y, <<"-">>>>) =>
               eval_ret = DSub(atof(x), atof(y))
        /\ (EvalReturned /\ output = <<x, y, <<"/">>>> /\ atof(y) # Dbl(0)) =>
               eval_ret = DDiv(atof(x), atof(y))

PushedValue(value) ==
    \E i \in 1..Len(log) :
        /\ log[i].fn = "Stack_pushVal"
        /\ log[i].arg = value
        /\ log[i].ret = FUNCTION_SUCCESS

\* C28: for every operator of + - * ^, and for / with a divisor other than
\* 0, and every pair of operands x, y whose result is defined (-22 and -12
\* included), the evaluator pushes x op y and goes on: the postfix x y op is
\* no error and returns x op y.
C28_DefinedResultPushed ==
    \A x \in PostfixNumbers, y \in PostfixNumbers, op \in BinaryTokens :
        (/\ EvalReturned
         /\ output = <<x, y, op>>
         /\ ~(op = <<"/">> /\ atof(y) = Dbl(0))
         /\ IsFrac(Apply(op[1], atof(x), atof(y)))) =>
            /\ PushedValue(Apply(op[1], atof(x), atof(y)))
            /\ iterator = number
            /\ eval_ret = Apply(op[1], atof(x), atof(y))

\* C29: when evaluatePostfix meets a binary operator while the value stack
\* holds no value (a postfix sequence that starts with "+"), it returns an
\* error at once: it pops nothing and applies no operation.
C29_BinaryOnEmptyStack ==
    (EvalReturned /\ Len(output) >= 1 /\ output[1] \in BinaryTokens) =>
        /\ eval_ret = Dbl(-EINVAL)
        /\ iterator = 0
        /\ log = <<>>

\* C30: when infixToPostfix processes an operator token and the top of the
\* operator stack is a function name, the function is popped and emitted
\* before the operator is pushed, whatever the operator, and the popping
\* stops at an opening bracket: f a op 4 gives a f 4 op, and so does
\* ( f a op 4 ).
C30_FunctionOnTop ==
    \A f \in FunctionNames, a \in Lits, o \in BinOps :
        (/\ Converted
         /\ \/ tokens = <<f, a, <<o>>, <<"4">>>>
            \/ tokens = << <<"(">>, f, a, <<o>>, <<"4">>, <<")">> >>) =>
            /\ postfix_ret = 4
            /\ output = <<a, f, <<"4">>, <<o>>>>

\* the tokens with every bracket replaced by the round bracket of its
\* direction: the same sequence with matching kinds
RoundKind(toks) ==
    [i \in 1..Len(toks) |->
        IF toks[i] \in OpenBrackets THEN <<"(">>
        ELSE IF toks[i] \in CloseBrackets THEN <<")">>
        ELSE toks[i]]

\* the brackets from toks[i] on nest properly when their kind is ignored,
\* depth of them being open
RECURSIVE NestedFrom(_, _, _)
NestedFrom(toks, i, depth) ==
    IF i > Len(toks) THEN depth = 0
    ELSE IF toks[i] \in OpenBrackets THEN NestedFrom(toks, i + 1, depth + 1)
    ELSE IF toks[i] \in CloseBrackets
    THEN depth > 0 /\ NestedFrom(toks, i + 1, depth - 1)
    ELSE NestedFrom(toks, i + 1, depth)

SameKind(open, close) ==
    <<open, close>> \in { << <<"(">>, <<")">> >>, << <<"[">>, <<"]">> >>,
                          << <<"{">>, <<"}">> >> }

\* balanced in count, and some innermost pair is of two kinds
MixedKinds(toks) ==
    /\ NestedFrom(toks, 1, 0)
    /\ \E i \in 1..Len(toks), j \in 1..Len(toks) :
           /\ i < j
           /\ toks[i] \in OpenBrackets
           /\ toks[j] \in CloseBrackets
           /\ \A k \in (i + 1)..(j - 1) :
                  toks[k] \notin OpenBrackets \cup CloseBrackets
           /\ ~SameKind(toks[i], toks[j])

\* the calls in which the converter took an opening bracket off the stack
BracketMatches ==
    { i \in 1..Len(log) :
        log[i].fn = "Stack_popOp" /\ log[i].ret \in OpenBrackets }

ConverterKnown(token) ==
    \/ IsNumberToken(token)
    \/ token \in FunctionNames
    \/ token \in OpenBrackets \cup CloseBrackets
    \/ token \in OperatorTokens

HasUnknownToken(toks) == \E i \in 1..Len(toks) : ~ConverterKnown(toks[i])

\* 0-based index of the first token the converter has no rule for
FirstUnknownToken(toks) ==
    (CHOOSE i \in 1..Len(toks) :
        /\ ~ConverterKnown(toks[i])
        /\ \A j \in 1..(i - 1) : ConverterKnown(toks[j])) - 1

\* C32: if the infix sequence holds a token that is no number, no known
\* function name, no bracket and no operator (an identifier outside the
\* function table, a lone "."), infixToPostfix returns an error, stops no
\* later than at the first such token, and no later stage runs.
C32_UnrecognisedToken ==
    (Converted /\ HasUnknownToken(tokens)) =>
        /\ postfix_ret = -EINVAL
        /\ iterator <= FirstUnknownToken(tokens)
        /\ ran = {"tokenize", "infixToPostfix"}
        /\ pc = "done"

\* tokenize returned an error at a position of the expression
TokenizeFailedAt(i) ==
    /\ ran = {"tokenize"}
    /\ tokenize_ret = -EINVAL
    /\ iterator = i
    /\ i < Len(expression)

\* C33: whenever the scan position of tokenize is at a digit or ".", a
\* NUMBER token is started there, whatever tokens were produced before it,
\* also directly or later after a token that reached the token capacity:
\* as long as the token array has room, tokenize never fails at a digit or
\* a ".".
C33_NumberRuleLocal ==
    \A i \in 0..(Len(expression) - 1) :
        (TokenizeFailedAt(i) /\ total_tokens < MAX_NUM_TOKENS) =>
            expression[i + 1] \notin NumberChars

\* the expression without its whitespace
Unspaced(expr) == SelectSeq(expr, LAMBDA c : ~isspace(c))

\* the tokens written one after the other
RECURSIVE Concatenated(_)
Concatenated(toks) ==
    LET half == Len(toks) \div 2
    IN  IF toks = <<>> THEN <<>>
        ELSE IF Len(toks) = 1 THEN toks[1]
        ELSE Concatenated(SubSeq(toks, 1, half))
                \o Concatenated(SubSeq(toks, half + 1, Len(toks)))

\* C34: whenever tokenize succeeds, the returned tokens written one after
\* the other are the expression with its whitespace removed: no character
\* is dropped, duplicated or reordered.
C34_RoundTrip ==
    (Tokenized /\ tokenize_ret >= 0) =>
        Concatenated(SubSeq(tokens, 1, tokenize_ret)) = Unspaced(expression)

C34_Witness ==
    /\ Tokenized
    /\ tokenize_ret = 5
    /\ \E i \in 1..Len(expression) : isspace(expression[i])

Brackets == OpenBrackets \cup CloseBrackets

\* the positions of a sequence that hold no bracket token
NonBrackets(toks) == { i \in 1..Len(toks) : toks[i] \notin Brackets }

\* number of positions of a sequence that hold the token
Occurrences(toks, token) ==
    Cardinality({ i \in 1..Len(toks) : toks[i] = token })

\* C35: whenever infixToPostfix succeeds on n input tokens, the output
\* holds no bracket token, its length is n minus the number of bracket
\* tokens of the input, every non-bracket input token appears in the output
\* as often as in the input, and the operator stack is empty at return.
C35_PostfixShape ==
    (Converted /\ postfix_ret >= 0) =>
        LET post == SubSeq(output, 1, postfix_ret)
        IN  /\ NonBrackets(post) = 1..postfix_ret
            /\ postfix_ret = Cardinality(NonBrackets(tokens))
            /\ \A i \in NonBrackets(tokens) :
                   Occurrences(post, tokens[i]) = Occurrences(tokens, tokens[i])
            /\ op_stack.top = EMPTY_TOP

\* the calls before the i-th that changed the number of elements of a stack:
\* pushes that returned success, pops made on a stack that held an element
SuccessfulPushes(fn, i) ==
    Cardinality({ j \in 1..(i - 1) :
                    log[j].fn = fn /\ log[j].ret = FUNCTION_SUCCESS })

SuccessfulPops(fn, i) ==
    Cardinality({ j \in 1..(i - 1) :
                    log[j].fn = fn /\ log[j].before.top # EMPTY_TOP })

\* C36: after any sequence of push, pop, peek and isEmpty calls on a stack
\* initialised empty (top = -1), the top index is within -1..999, the stack
\* holds at most 1000 elements, and isEmpty reports Empty exactly when as
\* many pushes have succeeded as pops.
C36_StackBounds ==
    /\ op_stack.top \in EMPTY_TOP..(MAX_STACK_SIZE - 1)
    /\ val_stack.top \in EMPTY_TOP..(MAX_STACK_SIZE - 1)
    /\ Count(op_stack) <= MAX_STACK_SIZE
    /\ Count(val_stack) <= MAX_STACK_SIZE
    /\ \A i \in 1..Len(log) :
           /\ log[i].fn = "Stack_isEmpty" =>
                  (log[i].ret = STACK_EMPTY
                     <=> SuccessfulPushes("Stack_pushOp", i)
                           = SuccessfulPops("Stack_popOp", i))
           /\ log[i].fn = "Stack_isEmptyVal" =>
                  (log[i].ret = STACK_EMPTY
                     <=> SuccessfulPushes("Stack_pushVal", i)
                           = SuccessfulPops("Stack_popVal", i))

C36_Witness ==
    /\ Len(log) >= 4
    /\ log[1].fn = "Stack_pushOp"
    /\ log[2].fn = "Stack_peekOp"
    /\ log[3].fn = "Stack_popOp"
    /\ log[4].fn = "Stack_isEmpty"
    /\ log[4].ret = STACK_EMPTY

\* the menu machine and its two recorded states
HasMachine == current_machine # NullMachine

Current == current_machine.state[CURRENT_STATE]

Previous == current_machine.state[PREVIOUS_STATE]

\* a pass of the main loop on a machine, from its switch to its end
Pass == pc = "main" /\ pc' = "main" /\ HasMachine /\ ~break_condition

\* the order of the cycle
Follows(from, to) ==
    \/ from = GET_FROM_USER /\ to = MAKE_OPERATION
    \/ from = MAKE_OPERATION /\ to = RETURN_FOR_USER
    \/ from = RETURN_FOR_USER /\ to = ASK_FOR_CONTINUE
    \/ from = ASK_FOR_CONTINUE
         /\ to \in {GET_FROM_USER, ASK_FOR_CONTINUE, IDLE_STATE}

HandlerReturn == process_state(Current, current_machine, stdin).ret

\* C38: when the handler of GET_FROM_USER, MAKE_OPERATION or
\* RETURN_FOR_USER fails (returns a non-zero code, as -EINVAL on user input
\* that cannot be read), the pass takes the machine to IDLE_STATE and not
\* to the next state of the cycle.
C38_FailureTransition ==
    [][(/\ Pass
        /\ Current \in {GET_FROM_USER, MAKE_OPERATION, RETURN_FOR_USER}
        /\ HandlerReturn # FUNCTION_SUCCESS) =>
           Current' = IDLE_STATE]_vars

\* a pass of the main loop in GET_FROM_USER, whether its handler returns or
\* stays in its getchar loop
InputPass ==
    /\ pc = "main"
    /\ HasMachine
    /\ ~break_condition
    /\ Current = GET_FROM_USER
    /\ pc' \in {"main", "getchar"}

\* the three reads of the input handler on the input at hand, as <stdio.h>
\* defines them
FirstRead == scanf_i(stdin)

SecondRead == scanf_i(FirstRead.rest)

ThirdRead == scanf_c(DiscardLine(SecondRead.rest).rest)

AllReadsSucceed ==
    /\ FirstRead.ret = 1
    /\ SecondRead.ret = 1
    /\ ~DiscardLine(SecondRead.rest).hung
    /\ ThirdRead.ret = 1

\* C39: if StateMachine_processUserInput fails at any of its three reads
\* (first number, second number, operation), the machine's data
\* (first_number, second_number, operation, result) are unchanged; they are
\* replaced, by the three values read, only when all three reads succeed,
\* and result is never changed by this handler.
C39_InputAllOrNothing ==
    [][InputPass =>
         /\ ~AllReadsSucceed => current_machine'.data = current_machine.data
         /\ AllReadsSucceed =>
              current_machine'.data =
                  [first_number  |-> FirstRead.value,
                   second_number |-> SecondRead.value,
                   operation     |-> ThirdRead.value,
                   result        |-> current_machine.data.result]
         /\ AllReadsSucceed <=> HandlerReturn = FUNCTION_SUCCESS]_vars

\* the handler has failed at a number, leaving the word it met unread, and
\* the data the machine held before are still there
C39_Witness ==
    /\ pc = "main"
    /\ HasMachine
    /\ Previous = GET_FROM_USER
    /\ stdin # <<>>
    /\ Head(stdin) = "x"
    /\ current_machine.data.first_number = 9
    /\ current_machine.data.result = 7

\* the answer StateMachine_processAskForContinue reads from the input at
\* hand: the character behind the next newline, "" if there is none
Answer ==
    LET line == DiscardLine(stdin)
    IN  IF line.hung \/ line.rest = <<>> THEN ""
        ELSE toupper(Head(line.rest))

\* a pass of the main loop in ASK_FOR_CONTINUE that got an answer
AnswerPass == Pass /\ Current = ASK_FOR_CONTINUE /\ Answer # ""

\* the switch of the main loop selects IDLE_STATE
IdleSelected ==
    /\ pc = "main"
    /\ StateMachine_getState(current_machine, CURRENT_STATE) = IDLE_STATE

Terminated == pc = "exit"

\* what a step of the loop does with the answer
AnswerStep ==
    /\ (break_condition' /\ ~break_condition) => (AnswerPass /\ Answer = "N")
    /\ AnswerPass =>
          /\ Answer = "N" => (break_condition' /\ Current' = IDLE_STATE)
          /\ Answer = "S" => (~break_condition' /\ Current' = GET_FROM_USER)
          /\ Answer \notin {"N", "S"} =>
                (~break_condition' /\ Current' = ASK_FOR_CONTINUE)

\* C40: the main loop terminates only from ASK_FOR_CONTINUE when the user
\* answers N, and CURRENT_STATE then becomes IDLE_STATE; the answer S leads
\* back to GET_FROM_USER and any other answer keeps the machine in
\* ASK_FOR_CONTINUE; the loop never remains in IDLE_STATE without
\* terminating, and once the user has answered N the loop terminates.
C40_MenuExit ==
    /\ [][AnswerStep]_vars
    /\ IdleSelected ~> Terminated
    /\ break_condition ~> Terminated

====
